---------------------------- MODULE Spec2Model ----------------------------
(***************************************************************************)
(* A model of the issue analysis pipeline of the GitHub Issue Analyzer     *)
(* backend: the model client and response validator (llm_service.py), the  *)
(* two-tier cache (cache.py) and the request handler with its statistics   *)
(* (routes.py).                                                            *)
(*                                                                         *)
(* Three specifications share the variables:                               *)
(*   SpecLLM    one analyze_issue call, attempt by attempt, the model's    *)
(*              replies drawn from Replies;                                *)
(*   SpecCache  the CacheManager API called directly, the primary store    *)
(*              (Redis) failing and recovering, time passing;              *)
(*   Spec       the /analyze handler, the cache endpoints and the same     *)
(*              environment.                                               *)
(***************************************************************************)
EXTENDS Integers, Sequences, FiniteSets, TLC

VARIABLES
    \* ---- LLMService.analyze_issue (one call and its recursion)
    llm_pc,          \* "idle" | "calling" | "returned" | "raised"
    retry_count,     \* the retry_count argument of the current frame
    max_retries,     \* the max_retries argument
    llm_body,        \* the issue_body argument
    llm_calls,       \* model invocations made by this analyze_issue call
    llm_hist,        \* per frame so far: the kind of reply it got
    llm_reply,       \* the reply the last frame got
    llm_out          \* what the last frame returned or raised, and its prompt

llmVars ==
    <<llm_pc, retry_count, max_retries, llm_body, llm_calls, llm_hist, llm_reply,
      llm_out>>

VARIABLES
    \* ---- CacheManager
    redis_client,    \* self.redis_client is set (Redis configured)
    redis_up,        \* environment: the Redis server answers
    redis_store,     \* environment: key -> [value, expires_at] held by Redis
    in_memory_cache, \* self.in_memory_cache: key -> [value, expires_at]
    now,             \* environment: datetime.utcnow(), in seconds
    cache_op,        \* SpecCache: the last CacheManager call and its result
    last_set         \* history: per key, the last set since a delete or clear

cacheVars ==
    <<redis_client, redis_up, redis_store, in_memory_cache, now, cache_op, last_set>>

VARIABLES
    \* ---- routes.py: the /analyze handler and the statistics
    stats,           \* the stats dict; response_times as the list of elapsed times
    req,             \* per handler slot: the request it runs and where it is
    resp,            \* per handler slot: the response of its last request
    started,         \* requests received so far
    prev,            \* history: the request that finished last
    batch,           \* the /analyze-batch call: its items, its results list
    resolve,         \* SpecResolve: the last parse_github_url call and its result
    fetch,           \* SpecFetch: the GitHubService.fetch_issue call under way
    prompts          \* SpecPrompt: the create_analysis_prompt calls made so far

reqVars == <<stats, req, resp, started, prev, batch, resolve, fetch, prompts>>

vars == <<llmVars, cacheVars, reqVars>>

(***************************************************************************)
(* JSON values as Python sees them after json.loads.  k is the Python      *)
(* type, s a string payload, n a number payload (tenths for a float),      *)
(* items the elements of a list.  "absent" is a key the object lacks.      *)
(***************************************************************************)
JV(k, s, n, items) == [k |-> k, s |-> s, n |-> n, items |-> items]
Absent == JV("absent", "", 0, <<>>)
JNull == JV("null", "", 0, <<>>)
JStr(s) == JV("str", s, 0, <<>>)
JInt(n) == JV("int", "", n, <<>>)
JBool(b) == JV("bool", "", IF b THEN 1 ELSE 0, <<>>)
JFloat(tenths) == JV("float", "fin", tenths, <<>>)
JInf == JV("float", "inf", 0, <<>>)
JNaN == JV("float", "nan", 0, <<>>)
JList(items) == JV("list", "", 0, items)
JObj == JV("dict", "", 0, <<>>)

\* dict.get(key, default): the default only when the key is missing
DictGet(v, default) == IF v.k = "absent" THEN default ELSE v


(***************************************************************************)
(* Python exceptions: the class decides which except clause takes them.    *)
(***************************************************************************)
Exc(cls, msg) == [cls |-> cls, msg |-> msg]
NoExc == Exc("", "")

(***************************************************************************)
(* schemas.py: IssueAnalysis and PriorityScore, as analysis.dict() shows   *)
(* them.                                                                   *)
(***************************************************************************)
IssueAnalysis(summary, type, score, justification, labels, impact) ==
    [summary |-> summary, type |-> type,
     priority_score |-> [score |-> score, justification |-> justification],
     suggested_labels |-> labels, potential_impact |-> impact]

NoAnalysis == IssueAnalysis("", "", 0, "", <<>>, "")

ValidTypes == {"bug", "feature_request", "documentation", "question", "other"}

\* IssueAnalysis.validate_type: the pydantic validator of the type field
schema_type_ok(v) == v \in ValidTypes

\* PriorityScore.score: Field(ge=1, le=5)
schema_score_ok(n) == 1 <= n /\ n <= 5

\* a pydantic str field takes a str; None and a list are validation errors
schema_str_ok(v) == v.k = "str"

(***************************************************************************)
(* LLMService._validate_type                                               *)
(***************************************************************************)
validate_type_raw(issue_type) ==
    IF issue_type.k = "str" THEN issue_type.s ELSE "other"

validate_type(issue_type) ==
    IF issue_type.k = "str" /\ issue_type.s \in ValidTypes
    THEN issue_type.s
    ELSE "other"

(***************************************************************************)
(* Python's int(x).  A str is parsed after stripping white space; a float  *)
(* is truncated toward zero; infinity is an OverflowError, NaN and an      *)
(* unparseable str a ValueError, None, a list and a dict a TypeError.      *)
(***************************************************************************)
IntLiterals == {"4", "9", " 2 "}

IntLiteralValue(s) ==
    CASE s = "4" -> 4
      [] s = "9" -> 9
      [] s = " 2 " -> 2

Truncate(tenths) ==
    IF tenths >= 0 THEN tenths \div 10 ELSE 0 - ((0 - tenths) \div 10)

PyInt(x) ==
    CASE x.k \in {"int", "bool"} -> [exc |-> "", n |-> x.n]
      [] x.k = "float" /\ x.s = "fin" -> [exc |-> "", n |-> Truncate(x.n)]
      [] x.k = "float" /\ x.s = "inf" -> [exc |-> "OverflowError", n |-> 0]
      [] x.k = "float" /\ x.s = "nan" -> [exc |-> "ValueError", n |-> 0]
      [] x.k = "str" /\ x.s \in IntLiterals ->
            [exc |-> "", n |-> IntLiteralValue(x.s)]
      [] x.k = "str" /\ x.s \notin IntLiterals -> [exc |-> "ValueError", n |-> 0]
      [] OTHER -> [exc |-> "TypeError", n |-> 0]

DefaultScore == 3

(***************************************************************************)
(* LLMService._validate_priority_score: except (ValueError, TypeError)     *)
(* only, so any other exception of int() leaves the function.              *)
(***************************************************************************)
validate_priority_score(score) ==
    LET r == PyInt(score)
    IN  IF r.exc = ""
        THEN [exc |-> "", n |-> IF 1 <= r.n /\ r.n <= 5 THEN r.n ELSE DefaultScore]
        ELSE IF r.exc \in {"ValueError", "TypeError"}
             THEN [exc |-> "", n |-> DefaultScore]
             ELSE r

(***************************************************************************)
(* LLMService._validate_labels                                             *)
(***************************************************************************)
MaxLabels == 5

\* str(label) of a str, an int or a bool
PyStr(x) ==
    CASE x.k = "str" -> x.s
      [] x.k = "int" -> ToString(x.n)
      [] x.k = "bool" -> IF x.n = 1 THEN "True" ELSE "False"

\* str.strip() on the label texts the replies use
Strip(s) ==
    CASE s = " ui " -> "ui"
      [] s = "   " -> ""
      [] OTHER -> s

IsStrOrInt(x) == x.k \in {"str", "int", "bool"}

Take(seq, n) == SubSeq(seq, 1, IF Len(seq) < n THEN Len(seq) ELSE n)

validate_labels(labels) ==
    IF labels.k # "list" THEN <<>>
    ELSE LET kept == SelectSeq(labels.items, IsStrOrInt)
             valid_labels ==
                 Take([i \in 1..Len(kept) |-> Strip(PyStr(kept[i]))], MaxLabels)
         IN  IF valid_labels = <<>> THEN <<"general">> ELSE valid_labels

(***************************************************************************)
(* A reply of the model.  status "error" is generate_content raising,      *)
(* "empty" a response without text.  A text carries a payload (JSON, or    *)
(* garbage that json.loads rejects), inside a ``` fence or not, with or    *)
(* without prose around it.  data is what json.loads makes of a JSON       *)
(* payload: top is the Python type of the top-level value, the other       *)
(* fields are the keys of a top-level object (score and justification      *)
(* those of a priority_score that is itself an object).                    *)
(***************************************************************************)
Data(top, summary, type, priority_score, score, justification, labels, impact) ==
    [top |-> top, summary |-> summary, type |-> type,
     priority_score |-> priority_score, score |-> score,
     justification |-> justification, suggested_labels |-> labels,
     potential_impact |-> impact]

GoodData ==
    Data("dict", JStr("crash on save"), JStr("bug"), JObj, JInt(4),
         JStr("blocks users"), JList(<<JStr("bug"), JStr("urgent")>>),
         JStr("data loss"))

EmptyObject ==
    Data("dict", Absent, Absent, Absent, Absent, Absent, Absent, Absent)

NotAString == {JNull, JList(<<>>)}

SummaryVals == {Absent} \cup NotAString
TypeVals ==
    {Absent, JNull, JStr("feature_request"), JStr("question"), JStr("other"),
     JStr("Bug"), JStr("enhancement"), JInt(1), JList(<<>>)}
PriorityVals == {Absent, JNull, JInt(5), JStr("high"), JList(<<>>)}
ScoreVals ==
    {Absent, JNull, JInt(0 - 1), JInt(0), JInt(1), JInt(5), JInt(6), JInt(7),
     JFloat(5), JFloat(47), JFloat(55), JFloat(0 - 5), JInf, JNaN,
     JStr("4"), JStr("9"), JStr(" 2 "), JStr("high"), JStr("4.5"), JStr(""),
     JBool(TRUE), JBool(FALSE), JList(<<>>), JObj}
JustificationVals == {Absent} \cup NotAString
LabelVals ==
    {Absent, JNull, JStr("bug"), JInt(3), JObj, JList(<<>>),
     JList(<<JNull, JFloat(15)>>), JList(<<JStr("   ")>>),
     JList(<<JStr(" ui "), JInt(7), JBool(TRUE), JNull, JStr("api")>>),
     JList(<<JStr("a"), JStr("b"), JStr("c"), JStr("d"), JStr("e"), JStr("f")>>)}
ImpactVals == {Absent} \cup NotAString
TopVals == {"list", "str", "int", "NoneType"}

\* the JSON payloads: the well-formed one, and it with one key changed
Datas ==
    {GoodData, EmptyObject}
    \cup {[GoodData EXCEPT !.summary = v] : v \in SummaryVals}
    \cup {[GoodData EXCEPT !.type = v] : v \in TypeVals}
    \cup {[GoodData EXCEPT !.priority_score = v, !.score = Absent,
                            !.justification = Absent] : v \in PriorityVals}
    \cup {[GoodData EXCEPT !.score = v] : v \in ScoreVals}
    \cup {[GoodData EXCEPT !.justification = v] : v \in JustificationVals}
    \cup {[GoodData EXCEPT !.suggested_labels = v] : v \in LabelVals}
    \cup {[GoodData EXCEPT !.potential_impact = v] : v \in ImpactVals}
    \cup {[EmptyObject EXCEPT !.top = t] : t \in TopVals}

Reply(status, fenced, prose, syntax, data) ==
    [status |-> status, fenced |-> fenced, prose |-> prose, syntax |-> syntax,
     data |-> data]

Replies ==
    {Reply("text", FALSE, FALSE, "json", d) : d \in Datas}
    \cup {Reply("text", f, p, "json", GoodData) : f, p \in BOOLEAN}
    \cup {Reply("text", f, p, "garbage", EmptyObject) : f, p \in BOOLEAN}
    \cup {Reply("empty", FALSE, FALSE, "garbage", EmptyObject),
          Reply("error", FALSE, FALSE, "garbage", EmptyObject)}

(***************************************************************************)
(* LLMService._call_gemini                                                 *)
(***************************************************************************)
call_gemini(reply) ==
    CASE reply.status = "error" ->
            [exc |-> Exc("Exception", "Gemini API error"), text |-> reply]
      [] reply.status = "empty" ->
            [exc |-> Exc("ValueError", "Empty response from Gemini API"),
             text |-> reply]
      [] OTHER -> [exc |-> NoExc, text |-> reply]

(***************************************************************************)
(* LLMService._parse_response, lines 167-179: the first ``` fence's        *)
(* content if the text has one, else the whole text; then json.loads.      *)
(***************************************************************************)
json_loads_ok(text) ==
    /\ text.syntax = "json"
    /\ text.fenced \/ ~text.prose

(***************************************************************************)
(* LLMService._parse_response, lines 182-200.  The keyword arguments are   *)
(* evaluated in order, then pydantic validates the fields.  A              *)
(* JSONDecodeError leaves as a ValueError; AttributeError, OverflowError   *)
(* and pydantic's ValidationError are not caught here.                     *)
(***************************************************************************)
build_analysis(data) ==
    LET summary == DictGet(data.summary, JStr(""))
        ps == DictGet(data.priority_score, JObj)
        score == validate_priority_score(
                     IF data.priority_score.k = "absent" THEN Absent ELSE data.score)
        justification ==
            DictGet(IF data.priority_score.k = "absent" THEN Absent
                    ELSE data.justification, JStr(""))
        impact == DictGet(data.potential_impact, JStr(""))
        type == validate_type(data.type)
    IN  CASE data.top # "dict" ->
                [exc |-> Exc("AttributeError", "object has no attribute get"),
                 analysis |-> NoAnalysis]
          [] data.top = "dict" /\ ps.k # "dict" ->
                [exc |-> Exc("AttributeError", "object has no attribute get"),
                 analysis |-> NoAnalysis]
          [] data.top = "dict" /\ ps.k = "dict" /\ score.exc # "" ->
                [exc |-> Exc(score.exc, "cannot convert float infinity to integer"),
                 analysis |-> NoAnalysis]
          [] data.top = "dict" /\ ps.k = "dict" /\ score.exc = ""
             /\ ~(/\ schema_score_ok(score.n)
                  /\ schema_str_ok(justification)
                  /\ schema_str_ok(summary)
                  /\ schema_type_ok(type)
                  /\ schema_str_ok(impact)) ->
                [exc |-> Exc("ValidationError", "validation error"),
                 analysis |-> NoAnalysis]
          [] OTHER ->
                [exc |-> NoExc,
                 analysis |-> IssueAnalysis(summary.s, type, score.n,
                                            justification.s,
                                            validate_labels(
                                                DictGet(data.suggested_labels,
                                                        JList(<<>>))),
                                            impact.s)]

parse_response_reraise(text) ==
    IF json_loads_ok(text) THEN build_analysis(text.data)
    ELSE [exc |-> Exc("JSONDecodeError", "Expecting value"), analysis |-> NoAnalysis]

parse_response(text) ==
    IF json_loads_ok(text) THEN build_analysis(text.data)
    ELSE [exc |-> Exc("ValueError", "Invalid JSON in response"),
          analysis |-> NoAnalysis]

(***************************************************************************)
(* LLMService.analyze_issue, one frame of the recursion: the try body      *)
(* (one model invocation, then _parse_response) and the two except         *)
(* clauses.  reply answers the invocation of the try body, extra the       *)
(* invocation the JSONDecodeError clause makes with the enhanced prompt.   *)
(* next is what the frame does: "return" the analysis, "recurse" with      *)
(* retry_count + 1, or "raise" exc.  calls counts the frame's model        *)
(* invocations, prompt is the prompt of the last of them.                  *)
(***************************************************************************)
DefaultMaxRetries == 3

Frame(next, calls, prompt, exc, analysis) ==
    [next |-> next, calls |-> calls, prompt |-> prompt, exc |-> exc,
     analysis |-> analysis]

\* create_analysis_prompt, line 108: len(issue_body) of None is a TypeError
create_analysis_prompt(issue_body) ==
    IF issue_body.k = "str" THEN NoExc
    ELSE Exc("TypeError", "object of type NoneType has no len()")

analyze_frame(issue_body, reply, extra, retries, limit) ==
    LET prompted == create_analysis_prompt(issue_body)
        called == call_gemini(reply)
        body == CASE prompted # NoExc -> [exc |-> prompted, analysis |-> NoAnalysis]
                  [] prompted = NoExc /\ called.exc # NoExc ->
                        [exc |-> called.exc, analysis |-> NoAnalysis]
                  [] OTHER -> parse_response(called.text)
        made == IF prompted = NoExc THEN 1 ELSE 0
        again == call_gemini(extra)
    IN  CASE body.exc = NoExc ->
                Frame("return", made, "original", NoExc, body.analysis)
          [] body.exc # NoExc /\ body.exc.cls = "JSONDecodeError" ->
                IF retries < limit
                THEN IF again.exc # NoExc
                     THEN Frame("raise", made + 1, "enhanced", again.exc, NoAnalysis)
                     ELSE Frame("recurse", made + 1, "enhanced", NoExc, NoAnalysis)
                ELSE Frame("raise", made, "original",
                           Exc("ValueError", "Failed to parse LLM response after retries"),
                           NoAnalysis)
          [] OTHER ->
                IF retries < limit
                THEN Frame("recurse", made, "original", NoExc, NoAnalysis)
                ELSE Frame("raise", made, "original", body.exc, NoAnalysis)

\* whether the JSONDecodeError clause is entered, and so extra is consumed
takes_enhanced_call(reply) ==
    /\ call_gemini(reply).exc = NoExc
    /\ parse_response(reply).exc.cls = "JSONDecodeError"

(***************************************************************************)
(* What a reply is, read off the reply itself (not off the code's          *)
(* handling of it): the vocabulary of the properties.                      *)
(***************************************************************************)
ParsesAsJson(reply) ==
    /\ reply.status = "text"
    /\ reply.syntax = "json"
    /\ reply.fenced \/ ~reply.prose

NotCalled == Reply("none", FALSE, FALSE, "garbage", EmptyObject)

ReplyKind(reply) ==
    CASE reply.status = "none" -> "not_called"
      [] reply.status = "error" -> "transport"
      [] reply.status = "empty" -> "empty"
      [] reply.status = "text" /\ ~ParsesAsJson(reply) -> "unparseable"
      [] OTHER -> "json"

(***************************************************************************)
(* SpecLLM: one analyze_issue call after another.                          *)
(***************************************************************************)
MaxRetryBudgets == 0..DefaultMaxRetries

IssueBodies == {JStr("It crashes when I save."), JNull}

\* analyze_issue(..., retry_count=0, max_retries=limit) is called
LLMStart(issue_body, limit) ==
    /\ llm_pc \in {"idle", "returned", "raised"}
    /\ llm_pc' = "calling"
    /\ retry_count' = 0
    /\ max_retries' = limit
    /\ llm_body' = issue_body
    /\ llm_calls' = 0
    /\ llm_hist' = <<>>
    /\ llm_reply' = NotCalled
    /\ llm_out' = [exc |-> NoExc, analysis |-> NoAnalysis, prompt |-> "original"]
    /\ UNCHANGED <<cacheVars, reqVars>>

\* one frame runs: the model answers reply (and extra), if it is called
LLMAttempt(reply, extra) ==
    /\ llm_pc = "calling"
    /\ LET f == analyze_frame(llm_body, reply, extra, retry_count, max_retries)
       IN  /\ llm_calls' = llm_calls + f.calls
           /\ llm_hist' = Append(llm_hist, ReplyKind(reply))
           /\ llm_reply' = reply
           /\ llm_out' = [exc |-> f.exc, analysis |-> f.analysis, prompt |-> f.prompt]
           /\ retry_count' = IF f.next = "recurse" THEN retry_count + 1
                             ELSE retry_count
           /\ llm_pc' = CASE f.next = "return" -> "returned"
                          [] f.next = "raise" -> "raised"
                          [] OTHER -> "calling"
    /\ UNCHANGED <<max_retries, llm_body>>
    /\ UNCHANGED <<cacheVars, reqVars>>

\* the replies a frame can get: none when the prompt cannot be built
RepliesTo(issue_body) ==
    IF create_analysis_prompt(issue_body) = NoExc THEN Replies ELSE {NotCalled}

NextLLM ==
    \/ \E issue_body \in IssueBodies, limit \in MaxRetryBudgets :
          LLMStart(issue_body, limit)
    \/ \E reply \in RepliesTo(llm_body) :
          \E extra \in (IF takes_enhanced_call(reply) THEN Replies ELSE {reply}) :
             LLMAttempt(reply, extra)

(***************************************************************************)
(* Properties of analyze_issue (SpecLLM).                                  *)
(***************************************************************************)
AllUnparseable == \A i \in 1..Len(llm_hist) : llm_hist[i] = "unparseable"

ParseFailure == Exc("ValueError", "Invalid JSON in response")

\* C1: while every reply so far was text that does not parse as JSON, each
\* frame made exactly one model invocation; the call is still running below
\* max_retries + 1 invocations and has raised the parse failure at exactly
\* max_retries + 1, after which no further invocation can happen.
C1_RetryBound ==
    AllUnparseable =>
        /\ llm_calls = Len(llm_hist)
        /\ llm_calls <= max_retries + 1
        /\ llm_calls = max_retries + 1 =>
              /\ llm_pc = "raised"
              /\ llm_out.exc = ParseFailure
        /\ (llm_hist # <<>> /\ llm_calls < max_retries + 1) => llm_pc = "calling"
        /\ llm_pc = "raised" =>
              ~ENABLED (\E reply \in Replies : LLMAttempt(reply, reply))

C1_Witness ==
    /\ AllUnparseable
    /\ llm_pc = "raised"
    /\ max_retries = DefaultMaxRetries
    /\ llm_calls = 4

\* C2: a frame whose reply parses as JSON returns an analysis: it neither
\* raises nor goes into a retry.
C2_RepairNeverRaises ==
    (llm_hist # <<>> /\ ParsesAsJson(llm_reply)) => llm_pc = "returned"

\* the score the reply carries is no number of 1..5
BadScore(v) ==
    \/ v.k \in {"absent", "null", "list", "dict"}
    \/ v.k = "int" /\ (v.n < 1 \/ v.n > 5)
    \/ v.k = "float" /\ v.s = "fin" /\ (v.n < 10 \/ v.n > 50)
    \/ v.k = "float" /\ v.s = "inf"
    \/ v.k = "str" /\ v.s \notin IntLiterals

WellFormedBut(data, field) ==
    /\ data.top = "dict"
    /\ field = "summary" \/ data.summary.k \in {"absent", "str"}
    /\ field = "priority_score" \/ data.priority_score.k \in {"absent", "dict"}
    /\ field = "justification" \/ data.justification.k \in {"absent", "str"}
    /\ field = "potential_impact" \/ data.potential_impact.k \in {"absent", "str"}

\* C3: a frame whose reply is JSON with a score out of range or not a
\* number returns, from that frame, an analysis with score 3; every
\* returned score is in 1..5.
C3_BadScoreBecomesThree ==
    /\ (/\ llm_hist # <<>>
        /\ ParsesAsJson(llm_reply)
        /\ WellFormedBut(llm_reply.data, "score")
        /\ llm_reply.data.priority_score.k = "dict"
        /\ BadScore(llm_reply.data.score)) =>
            /\ llm_pc = "returned"
            /\ llm_out.analysis.priority_score.score = DefaultScore
    /\ llm_pc = "returned" => llm_out.analysis.priority_score.score \in 1..5

\* C4: an analysis made from a reply without suggested_labels, or with one
\* that is no list, has the labels <<"general">>; no returned analysis has
\* an empty label list.
C4_NonListLabelsBecomeGeneral ==
    /\ (llm_pc = "returned" /\ llm_reply.data.suggested_labels.k # "list") =>
            llm_out.analysis.suggested_labels = <<"general">>
    /\ llm_pc = "returned" => llm_out.analysis.suggested_labels # <<>>

InvalidType(v) == ~(v.k = "str" /\ v.s \in ValidTypes)

\* C5: every returned analysis has a type of the enum; a reply whose type
\* is absent or anything else yields "other"; and the frame ends as it
\* would have with the type "other" in the reply (no failure or retry
\* comes from the type).
C5_TypeAlwaysValid ==
    /\ llm_pc = "returned" => llm_out.analysis.type \in ValidTypes
    /\ (llm_hist # <<>> /\ ParsesAsJson(llm_reply) /\ InvalidType(llm_reply.data.type)) =>
          /\ llm_pc = "returned" => llm_out.analysis.type = "other"
          /\ llm_pc = "returned" <=>
                parse_response([llm_reply EXCEPT !.data.type = JStr("other")]).exc = NoExc
          /\ (/\ WellFormedBut(llm_reply.data, "type")
              /\ PyInt(llm_reply.data.score).exc # "OverflowError") =>
                llm_pc = "returned"

C5_Witness ==
    /\ llm_pc = "returned"
    /\ llm_reply.data.type = JStr("enhancement")
    /\ llm_out.analysis.type = "other"
    /\ llm_calls = 1


(***************************************************************************)
(* CacheManager (cache.py).  Redis holds json.dumps(value) under a key     *)
(* until its TTL has run out; the server keeps its data while it is        *)
(* unreachable.  A call on an unreachable server raises, and so does       *)
(* setex with a TTL that is not positive.                                  *)
(***************************************************************************)
ConfiguredTtl == 2
MaxTime == 2

JsonDumps(a) ==
    <<a.summary, a.type, a.priority_score.score, a.priority_score.justification,
      a.suggested_labels, a.potential_impact>>

JsonLoads(t) == IssueAnalysis(t[1], t[2], t[3], t[4], t[5], t[6])

Entry(value, expires_at) == [value |-> value, expires_at |-> expires_at]

Without(f, key) == [k \in DOMAIN f \ {key} |-> f[k]]

With(f, key, e) == [k \in DOMAIN f \cup {key} |-> IF k = key THEN e ELSE f[k]]

NoEntries == [k \in {} |-> Entry(NoAnalysis, 0)]

\* what redis_client.get(key) answers when the server is reachable
RedisHolds(key) ==
    key \in DOMAIN redis_store /\ redis_store[key].expires_at > now

\* an optional ttl argument: <<>> is None, <<t>> is t
TtlArg(opt) == IF opt = <<>> \/ opt[1] = 0 THEN ConfiguredTtl ELSE opt[1]

(* The result of a CacheManager call: ret is the return value (hit and     *)
(* value for get), raised whether an exception left the method, redis and  *)
(* memory the two stores after the call.                                   *)
CacheResult(hit, value, raised, tier, redis, memory) ==
    [hit |-> hit, value |-> value, raised |-> raised, tier |-> tier,
     redis |-> redis, memory |-> memory]

\* CacheManager.get
cache_get_late(key) ==
    CASE redis_client /\ redis_up /\ RedisHolds(key) ->
            CacheResult(TRUE, JsonLoads(redis_store[key].value), FALSE, "redis",
                        redis_store, in_memory_cache)
      [] ~(redis_client /\ redis_up /\ RedisHolds(key))
         /\ key \in DOMAIN in_memory_cache
         /\ in_memory_cache[key].expires_at >= now ->
            CacheResult(TRUE, in_memory_cache[key].value, FALSE, "memory",
                        redis_store, in_memory_cache)
      [] ~(redis_client /\ redis_up /\ RedisHolds(key))
         /\ key \in DOMAIN in_memory_cache
         /\ in_memory_cache[key].expires_at < now ->
            CacheResult(FALSE, NoAnalysis, FALSE, "memory",
                        redis_store, Without(in_memory_cache, key))
      [] OTHER ->
            CacheResult(FALSE, NoAnalysis, FALSE, "memory",
                        redis_store, in_memory_cache)

\* a get that remembers a miss: it stores an empty entry under the key
cache_get_negative(key) ==
    IF cache_get_late(key).hit THEN cache_get_late(key)
    ELSE CacheResult(FALSE, NoAnalysis, FALSE, "memory", redis_store,
                     With(in_memory_cache, key, Entry(NoAnalysis, now + ConfiguredTtl)))

cache_get(key) ==
    CASE redis_client /\ redis_up /\ RedisHolds(key) ->
            CacheResult(TRUE, JsonLoads(redis_store[key].value), FALSE, "redis",
                        redis_store, in_memory_cache)
      [] ~(redis_client /\ redis_up /\ RedisHolds(key))
         /\ key \in DOMAIN in_memory_cache
         /\ in_memory_cache[key].expires_at > now ->
            CacheResult(TRUE, in_memory_cache[key].value, FALSE, "memory",
                        redis_store, in_memory_cache)
      [] ~(redis_client /\ redis_up /\ RedisHolds(key))
         /\ key \in DOMAIN in_memory_cache
         /\ in_memory_cache[key].expires_at <= now ->
            CacheResult(FALSE, NoAnalysis, FALSE, "memory",
                        redis_store, Without(in_memory_cache, key))
      [] OTHER ->
            CacheResult(FALSE, NoAnalysis, FALSE, "memory",
                        redis_store, in_memory_cache)

\* CacheManager.set
cache_set_no_fallback(key, value, opt) ==
    LET ttl == TtlArg(opt)
    IN  IF redis_client
        THEN IF redis_up /\ ttl > 0
             THEN CacheResult(TRUE, value, FALSE, "redis",
                              With(redis_store, key, Entry(JsonDumps(value), now + ttl)),
                              in_memory_cache)
             ELSE CacheResult(FALSE, value, TRUE, "redis", redis_store, in_memory_cache)
        ELSE CacheResult(TRUE, value, FALSE, "memory", redis_store,
                         With(in_memory_cache, key, Entry(value, now + ttl)))

cache_set(key, value, opt) ==
    LET ttl == TtlArg(opt)
    IN  IF redis_client /\ redis_up /\ ttl > 0
        THEN CacheResult(TRUE, value, FALSE, "redis",
                         With(redis_store, key, Entry(JsonDumps(value), now + ttl)),
                         in_memory_cache)
        ELSE CacheResult(TRUE, value, FALSE, "memory", redis_store,
                         With(in_memory_cache, key, Entry(value, now + ttl)))

\* CacheManager.delete
cache_delete(key) ==
    IF redis_client /\ redis_up
    THEN CacheResult(TRUE, NoAnalysis, FALSE, "redis",
                     Without(redis_store, key), in_memory_cache)
    ELSE IF key \in DOMAIN in_memory_cache
         THEN CacheResult(TRUE, NoAnalysis, FALSE, "memory",
                          redis_store, Without(in_memory_cache, key))
         ELSE CacheResult(FALSE, NoAnalysis, FALSE, "memory",
                          redis_store, in_memory_cache)

\* CacheManager.clear_all
cache_clear_all ==
    IF redis_client /\ redis_up
    THEN CacheResult(TRUE, NoAnalysis, FALSE, "redis", NoEntries, in_memory_cache)
    ELSE CacheResult(TRUE, NoAnalysis, FALSE, "memory", redis_store, NoEntries)

(***************************************************************************)
(* SpecCache: the CacheManager API called directly, while Redis fails and  *)
(* recovers and time passes.                                               *)
(***************************************************************************)
CacheKeys == {"acme/widgets#42"}

CacheValues ==
    {IssueAnalysis("crash on save", "bug", 4, "blocks users", <<"bug", "urgent">>,
                   "data loss"),
     IssueAnalysis("add dark mode", "feature_request", 2, "cosmetic", <<"ui">>,
                   "nicer at night")}

TtlArgs == {<<>>, <<0>>, <<1>>}

\* the TTL the caller of set asked for
RequestedTtl(opt) == IF opt = <<>> THEN ConfiguredTtl ELSE opt[1]

CacheOp(seq, op, key, failing, res) ==
    [seq |-> seq, op |-> op, key |-> key, failing |-> failing,
     hit |-> res.hit, value |-> res.value, raised |-> res.raised, tier |-> res.tier]

NoCacheResult == CacheResult(FALSE, NoAnalysis, FALSE, "memory", NoEntries, NoEntries)

NoCacheOp == CacheOp(0, "none", "", FALSE, NoCacheResult)

NotSet == [live |-> FALSE, value |-> NoAnalysis, expires_at |-> 0]

\* the Redis client is configured and the server does not answer
PrimaryFailing == redis_client /\ ~redis_up

\* a CacheManager call leaves the stores as res says
Stores(res) ==
    /\ redis_store' = res.redis
    /\ in_memory_cache' = res.memory
    /\ UNCHANGED <<redis_client, redis_up, now>>

\* a direct call, recorded in cache_op
Apply(op, key, res) ==
    /\ Stores(res)
    /\ cache_op' = CacheOp(1 - cache_op.seq, op, key, PrimaryFailing, res)
    /\ UNCHANGED <<llmVars, reqVars>>

CacheGet(key) ==
    /\ Apply("get", key, cache_get(key))
    /\ UNCHANGED last_set

CacheSet(key, value, opt) ==
    /\ Apply("set", key, cache_set(key, value, opt))
    /\ last_set' = [last_set EXCEPT ![key] =
                        [live |-> TRUE, value |-> value,
                         expires_at |-> now + RequestedTtl(opt)]]

CacheDelete(key) ==
    /\ Apply("delete", key, cache_delete(key))
    /\ last_set' = [last_set EXCEPT ![key] = NotSet]

CacheClearAll ==
    /\ Apply("clear_all", "", cache_clear_all)
    /\ last_set' = [k \in CacheKeys |-> NotSet]

\* the environment
RedisFail ==
    /\ redis_client /\ redis_up
    /\ redis_up' = FALSE
    /\ UNCHANGED <<redis_client, redis_store, in_memory_cache, now, cache_op, last_set>>
    /\ UNCHANGED <<llmVars, reqVars>>

RedisRecover ==
    /\ redis_client /\ ~redis_up
    /\ redis_up' = TRUE
    /\ UNCHANGED <<redis_client, redis_store, in_memory_cache, now, cache_op, last_set>>
    /\ UNCHANGED <<llmVars, reqVars>>

Tick ==
    /\ now < MaxTime
    /\ now' = now + 1
    /\ UNCHANGED <<redis_client, redis_up, redis_store, in_memory_cache, cache_op,
                   last_set>>
    /\ UNCHANGED <<llmVars, reqVars>>

NextCache ==
    \/ \E key \in CacheKeys : CacheGet(key)
    \/ \E key \in CacheKeys, value \in CacheValues, opt \in TtlArgs :
          CacheSet(key, value, opt)
    \/ \E key \in CacheKeys : CacheDelete(key)
    \/ CacheClearAll
    \/ RedisFail
    \/ RedisRecover
    \/ Tick

(***************************************************************************)
(* GitHubService.parse_github_url.  A URL is a sequence of pieces: "/",    *)
(* " ", ".git", or a run of text holding none of them.                     *)
(***************************************************************************)
RECURSIVE LStrip(_)
LStrip(s) == IF s # <<>> /\ Head(s) = " " THEN LStrip(Tail(s)) ELSE s

RECURSIVE RStrip(_, _)
RStrip(s, piece) ==
    IF s # <<>> /\ s[Len(s)] = piece THEN RStrip(SubSeq(s, 1, Len(s) - 1), piece)
    ELSE s

\* "github.com" in url
HasGithub(s) == \E i \in 1..Len(s) : s[i] \in {"github.com", "www.github.com"}

\* url.split('/'): the parts, each a sequence of pieces
RECURSIVE Split(_, _, _)
Split(s, cur, acc) ==
    IF s = <<>> THEN Append(acc, cur)
    ELSE IF Head(s) = "/" THEN Split(Tail(s), <<>>, Append(acc, cur))
    ELSE Split(Tail(s), Append(cur, Head(s)), acc)

\* part.replace('.git', '')
DropGit(part) == SelectSeq(part, LAMBDA piece : piece # ".git")

RECURSIVE Text(_)
Text(part) == IF part = <<>> THEN "" ELSE Head(part) \o Text(Tail(part))

Parsed(exc, owner, repo) == [exc |-> exc, owner |-> owner, repo |-> repo]

parse_github_url(url) ==
    LET stripped == RStrip(RStrip(LStrip(url), " "), "/")
        parts == Split(stripped, <<>>, <<>>)
        owner == IF Len(parts) >= 2 THEN Text(parts[Len(parts) - 1]) ELSE ""
        repo == Text(DropGit(parts[Len(parts)]))
    IN  IF HasGithub(stripped) /\ Len(parts) >= 2 /\ owner # "" /\ repo # ""
        THEN Parsed(NoExc, owner, repo)
        ELSE Parsed(Exc("ValueError", "Invalid GitHub URL"), "", "")

Resolved(called, url, out) == [called |-> called, url |-> url, out |-> out]

NoResolve == Resolved(FALSE, <<>>, Parsed(NoExc, "", ""))

MaxTail == 4

TailPieces == {"/", " ", ".git", "github.com", "acme", "widgets"}

Prefixes == {<<>>, <<"https:", "/", "/">>, <<"https:", "/", "/", "github.com", "/">>}

\* the arguments: nothing, the scheme, or scheme and host, then up to MaxTail
\* pieces
ResolveUrls ==
    UNION {{prefix \o tail : tail \in [1..n -> TailPieces]} :
              prefix \in Prefixes, n \in 0..MaxTail}

\* parse_github_url is called with the argument drawn at the start
Resolve ==
    /\ ~resolve.called
    /\ resolve' = Resolved(TRUE, resolve.url, parse_github_url(resolve.url))
    /\ UNCHANGED <<llmVars, cacheVars, stats, req, resp, started, prev, batch, fetch, prompts>>

NextResolve == Resolve

(***************************************************************************)
(* GitHubService.fetch_issue (github_service.py).  One call issues the     *)
(* issue-metadata GET, and after its JSON body was read the comments GET;  *)
(* the GitHubIssue is built after both.  An answer of the remote is a      *)
(* status (or a transport failure) and a payload.                          *)
(***************************************************************************)
\* what client.get does: it raises, or answers with a status
TransportFailures == {"timeout", "connect_error"}

Owner == "acme"

Repo == "widgets"

IssueNumber == 42

\* the issue payload: kind is "object", "list" (JSON, but not an object) or
\* "not_json"; title and body are JSON values, user is "login" (an object
\* with a login), "no_login", "absent" or "null"
Meta(kind, title, body, user) ==
    [kind |-> kind, title |-> title, body |-> body, user |-> user]

Answer(status, payload) == [status |-> status, payload |-> payload]

MetaPayloads ==
    {Meta("object", title, body, user) :
        title \in {JStr("Crash on save"), Absent},
        body \in {JStr("It crashes."), JStr(""), JNull, Absent},
        user \in {"login", "no_login", "absent", "null"}}
    \cup {Meta("list", Absent, Absent, "absent"),
          Meta("not_json", Absent, Absent, "absent")}

IssueAnswers ==
    {Answer("200", payload) : payload \in MetaPayloads}
    \cup {Answer(status, Meta("object", Absent, Absent, "absent")) :
             status \in {"403", "404", "500"} \cup TransportFailures}

\* one element of the comments payload: a JSON object or not, and its body
Comment(object, body) == [object |-> object, body |-> body]

\* the comments payload: kind is "list", "object" or "not_json"
Comments(kind, items) == [kind |-> kind, items |-> items]

CommentKinds ==
    {Comment(TRUE, JStr("first")), Comment(TRUE, JStr("second")),
     Comment(TRUE, JStr("")), Comment(TRUE, JNull), Comment(TRUE, Absent),
     Comment(FALSE, Absent)}

MaxShort == 2

\* per_page and the cut of the result (max_comments: int = 20)
MaxComments == 20

\* a page of n comments, the third of them without a text
Page(n) ==
    [i \in 1..n |-> Comment(TRUE, IF i = 3 THEN JStr("") ELSE JStr(ToString(i)))]

\* a page of n comments, every one with a text
FullPage(n) == [i \in 1..n |-> Comment(TRUE, JStr(ToString(i)))]

CommentLists ==
    UNION {[1..n -> CommentKinds] : n \in 0..MaxShort}
    \cup {Page(MaxComments), FullPage(MaxComments), FullPage(MaxComments + 1)}

CommentAnswers ==
    {Answer("200", Comments("list", items)) : items \in CommentLists}
    \cup {Answer("200", Comments("object", <<>>)),
          Answer("200", Comments("not_json", <<>>))}
    \cup {Answer(status, Comments("list", <<>>)) :
             status \in {"403", "404", "500"} \cup TransportFailures}

\* what an answer makes the call raise: raise_for_status, the transport, or
\* response.json()
call_failure(answer) ==
    CASE answer.status \in TransportFailures -> Exc("TransportError", answer.status)
      [] answer.status # "200" -> Exc("HTTPStatusError", answer.status)
      [] answer.payload.kind = "not_json" -> Exc("JSONDecodeError", "")
      [] OTHER -> NoExc

\* if comment.get("body"): the element is an object, its body a non-empty text
HasBody(comment) == comment.body.k = "str" /\ comment.body.s # ""

FetchedComments(exc, comments) == [exc |-> exc, comments |-> comments]

\* _fetch_comments without the except clause: the failure leaves the method
fetch_comments_raising(answer) ==
    IF call_failure(answer) # NoExc
    THEN FetchedComments(call_failure(answer), <<>>)
    ELSE IF answer.payload.kind # "list"
              \/ \E i \in DOMAIN answer.payload.items : ~answer.payload.items[i].object
         THEN FetchedComments(Exc("AttributeError", "comments"), <<>>)
         ELSE LET kept == SelectSeq(answer.payload.items, HasBody)
              IN  FetchedComments(NoExc,
                      Take([i \in DOMAIN kept |-> kept[i].body.s], MaxComments))

\* _fetch_comments without the test of the body
fetch_comments_unfiltered(answer) ==
    IF fetch_comments_raising(answer).exc # NoExc
    THEN FetchedComments(NoExc, <<>>)
    ELSE FetchedComments(NoExc,
             Take([i \in DOMAIN answer.payload.items |->
                      answer.payload.items[i].body.s], MaxComments))

\* _fetch_comments: the texts of the comments that have one, at most
\* max_comments of them, and [] after any exception
fetch_comments(answer) ==
    IF fetch_comments_raising(answer).exc # NoExc
    THEN FetchedComments(NoExc, <<>>)
    ELSE fetch_comments_raising(answer)

not_found_message(owner, repo, issue_number) ==
    "Issue #" \o ToString(issue_number) \o " not found in " \o owner \o "/" \o repo

RateLimitBase == "GitHub API rate limit exceeded."

TokenHint == " Add a GITHUB_TOKEN to .env to increase limits."

\* the message with the hint whether or not a token is configured
rate_limit_message_hinting(github_token) == RateLimitBase \o TokenHint

rate_limit_message(github_token) ==
    IF ~github_token THEN RateLimitBase \o TokenHint ELSE RateLimitBase

\* the except clauses of fetch_issue
fetch_issue_raises(exc, github_token) ==
    IF exc.cls = "HTTPStatusError" /\ exc.msg = "404"
    THEN Exc("ValueError", not_found_message(Owner, Repo, IssueNumber))
    ELSE IF exc.cls = "HTTPStatusError" /\ exc.msg = "403"
         THEN Exc("ValueError", rate_limit_message(github_token))
         ELSE exc

GitHubIssue(title, body, comments, author) ==
    [title |-> title, body |-> body, comments |-> comments, author |-> author]

NoIssue == GitHubIssue(Absent, Absent, <<>>, "")

Fetched(exc, issue) == [exc |-> exc, issue |-> issue]

\* dict.get(key, ""): the default only when the key is missing
GetOr(value) == IF value = Absent THEN JStr("") ELSE value

\* the GitHubIssue(...) expression: issue_data.get and the login of the user
build_issue(payload, comments) ==
    IF payload.kind # "object" \/ payload.user = "null"
    THEN Fetched(Exc("AttributeError", "issue"), NoIssue)
    ELSE Fetched(NoExc,
             GitHubIssue(GetOr(payload.title), GetOr(payload.body), comments,
                         IF payload.user = "login" THEN "octocat" ELSE ""))

\* the call: where it is, whether a token is configured, the GETs issued so
\* far, the two answers, and what it returned or raised
Fetch(pc, github_token, calls, issue_answer, comments_answer, out) ==
    [pc |-> pc, github_token |-> github_token, calls |-> calls,
     issue_answer |-> issue_answer, comments_answer |-> comments_answer,
     out |-> out]

NoAnswer == Answer("", Meta("", Absent, Absent, ""))

NoFetch(github_token) ==
    Fetch("idle", github_token, <<>>, NoAnswer, NoAnswer, Fetched(NoExc, NoIssue))

\* fetch_issue is called: the issue GET is issued
FetchStart ==
    /\ fetch.pc \in {"idle", "returned", "raised"}
    /\ fetch' = Fetch("issue", fetch.github_token, <<"issue">>, NoAnswer,
                      NoAnswer, Fetched(NoExc, NoIssue))
    /\ UNCHANGED <<llmVars, cacheVars, stats, req, resp, started, prev, batch, resolve, prompts>>

\* the issue GET is answered: the call raises, or reads the JSON body and
\* issues the comments GET
FetchIssueAnswered(answer) ==
    /\ fetch.pc = "issue"
    /\ fetch' =
          IF call_failure(answer) # NoExc
          THEN Fetch("raised", fetch.github_token, fetch.calls, answer, NoAnswer,
                     Fetched(fetch_issue_raises(call_failure(answer),
                                                fetch.github_token), NoIssue))
          ELSE Fetch("comments", fetch.github_token,
                     Append(fetch.calls, "comments"), answer, NoAnswer, fetch.out)
    /\ UNCHANGED <<llmVars, cacheVars, stats, req, resp, started, prev, batch, resolve, prompts>>

\* the comments GET is answered: _fetch_comments returns (or raises and the
\* except Exception clause of fetch_issue re-raises), then the GitHubIssue
\* is built
FetchCommentsAnswered(answer) ==
    /\ fetch.pc = "comments"
    /\ LET fetched == fetch_comments(answer)
           out == IF fetched.exc # NoExc
                  THEN Fetched(fetch_issue_raises(fetched.exc, fetch.github_token),
                               NoIssue)
                  ELSE build_issue(fetch.issue_answer.payload, fetched.comments)
       IN  fetch' = Fetch(IF out.exc = NoExc THEN "returned" ELSE "raised",
                          fetch.github_token, fetch.calls, fetch.issue_answer,
                          answer, out)
    /\ UNCHANGED <<llmVars, cacheVars, stats, req, resp, started, prev, batch, resolve, prompts>>

NextFetch ==
    \/ FetchStart
    \/ \E answer \in IssueAnswers : FetchIssueAnswered(answer)
    \/ \E answer \in CommentAnswers : FetchCommentsAnswered(answer)

(***************************************************************************)
(* create_analysis_prompt (prompts.py), the text it embeds.  A text is the *)
(* sequence of its characters, here digits; the prompt is given by the     *)
(* parts that depend on the arguments: the title, the body as embedded,    *)
(* the comment lines as embedded, and whether the "(No comments yet)"      *)
(* line stands in their place.  Everything else of the f-string is fixed   *)
(* text (SYSTEM_PROMPT, the few-shot section built from the module-level   *)
(* FEW_SHOT_EXAMPLES, the repository line).                                *)
(***************************************************************************)
\* issue_body[:8000]
BodyLimit == 8000

\* c[:1000]
CommentLimit == 1000

\* comments[:20]
PromptComments == 20

\* the text of n characters whose i-th character is (i + seed) % 10
Chars(n, seed) == [i \in 1..n |-> (i + seed) % 10]

\* the last n characters instead of the first
truncate_last(text, n) ==
    IF Len(text) > n THEN SubSeq(text, Len(text) - n + 1, Len(text)) ELSE text

\* x[:n] if len(x) > n else x
truncate(text, n) == IF Len(text) > n THEN SubSeq(text, 1, n) ELSE text

PromptParts(title, body, comments, no_comments) ==
    [title |-> title, body |-> body, comments |-> comments,
     no_comments |-> no_comments]

\* lines 108-112 and the f-string of lines 124-146
analysis_prompt(issue_title, issue_body, comments) ==
    LET truncated_body == truncate(issue_body, BodyLimit)
        first == Take(comments, PromptComments)
        truncated_comments == [i \in DOMAIN first |-> truncate(first[i], CommentLimit)]
    IN  PromptParts(issue_title, truncated_body, truncated_comments,
                    truncated_comments = <<>>)

PromptBodies ==
    {<<>>, Chars(3, 0), Chars(BodyLimit, 1), Chars(BodyLimit + 1, 2)}

PromptCommentLists ==
    {<<>>,
     <<Chars(2, 0)>>,
     <<Chars(CommentLimit, 3), Chars(CommentLimit + 1, 4), <<>>, Chars(2, 5)>>,
     [i \in 1..PromptComments |-> Chars(1, i)],
     [i \in 1..(PromptComments + 1) |->
         IF i = 2 THEN Chars(CommentLimit + 1, i) ELSE Chars(1, i)]}

PromptCall(issue_title, issue_body, comments, out) ==
    [issue_title |-> issue_title, issue_body |-> issue_body,
     comments |-> comments, out |-> out]

\* create_analysis_prompt is called and returns
BuildPrompt(issue_title, issue_body, comments) ==
    /\ Len(prompts) < 2
    /\ prompts' = Append(prompts,
                         PromptCall(issue_title, issue_body, comments,
                                    analysis_prompt(issue_title, issue_body, comments)))
    /\ UNCHANGED <<llmVars, cacheVars, stats, req, resp, started, prev, batch,
                   resolve, fetch>>

NextPrompt ==
    \E issue_title \in {"Crash on save"}, issue_body \in PromptBodies,
       comments \in PromptCommentLists :
        BuildPrompt(issue_title, issue_body, comments)

(***************************************************************************)
(* LLMService.analyze_issue as the handler sees it: the whole recursion.   *)
(* It awaits nothing (generate_content is a synchronous call), so it runs  *)
(* without yielding to the event loop.  script is what the model answers,  *)
(* invocation by invocation, its last reply repeated.                      *)
(***************************************************************************)
ScriptAt(script, i) == script[IF i <= Len(script) THEN i ELSE Len(script)]

RECURSIVE analyze_issue(_, _, _, _, _)
analyze_issue(issue_body, script, made, retries, limit) ==
    LET f == analyze_frame(issue_body, ScriptAt(script, made + 1),
                           ScriptAt(script, made + 2), retries, limit)
    IN  IF f.next = "recurse"
        THEN analyze_issue(issue_body, script, made + f.calls, retries + 1, limit)
        ELSE [exc |-> f.exc, analysis |-> f.analysis, calls |-> made + f.calls]

(***************************************************************************)
(* routes.py: the statistics and the /analyze handler.  A handler runs     *)
(* from one await to the next without interruption; the awaits are         *)
(* validate_repository, the issue request and the comments request.        *)
(***************************************************************************)
MaxRequests == 2

Slots == {"h1"}

NoStats ==
    [total_analyses |-> 0, cache_hits |-> 0, cache_misses |-> 0, errors |-> 0,
     response_times |-> <<>>]

\* an increment that writes back a count read before an await
record_error_stale(s) == [s EXCEPT !.errors = 1]

\* lines 77-81, 107-108, 153-154
record_error(s) == [s EXCEPT !.errors = @ + 1]

\* lines 88-91, with the miss of line 103 added: a hit that falls through
record_hit_and_miss(s, elapsed) ==
    [s EXCEPT !.cache_hits = @ + 1, !.cache_misses = @ + 1,
              !.response_times = Append(@, elapsed)]

\* a hit that starts the list of response times anew
record_hit_restarting(s, elapsed) ==
    [s EXCEPT !.cache_hits = @ + 1, !.response_times = <<elapsed>>]

\* lines 88-91
record_hit(s, elapsed) ==
    [s EXCEPT !.cache_hits = @ + 1, !.response_times = Append(@, elapsed)]

\* line 103
record_miss(s) == [s EXCEPT !.cache_misses = @ + 1]

\* lines 131-134 without line 133
record_analysis_uncounted(s, elapsed) ==
    [s EXCEPT !.response_times = Append(@, elapsed)]

\* lines 131-134
record_analysis(s, elapsed) ==
    [s EXCEPT !.total_analyses = @ + 1, !.response_times = Append(@, elapsed)]

\* the key with the parts joined by "/" only
cache_key_path(owner, repo, issue_number) ==
    owner \o "/" \o repo \o "/" \o ToString(issue_number)

\* line 84
cache_key(owner, repo, issue_number) ==
    owner \o "/" \o repo \o "#" \o ToString(issue_number)

Request(id, after, pc, key, use_cache, start, did, body) ==
    [id |-> id, after |-> after, pc |-> pc, key |-> key, use_cache |-> use_cache,
     start |-> start, did |-> did, body |-> body]

IdleReq == Request(0, 0, "idle", "", FALSE, 0, <<>>, JNull)

Response(status, cached, data) == [status |-> status, cached |-> cached, data |-> data]

NoResp == Response(0, FALSE, NoAnalysis)

\* history: the request that finished last
Finished(run, response) ==
    [id |-> run.id, key |-> run.key, use_cache |-> run.use_cache,
     status |-> response.status, cached |-> response.cached, data |-> response.data]

NoneFinished == Finished(IdleReq, NoResp)

\* analyze_batch, lines 205-218
Batch(pc, items, results, status) ==
    [pc |-> pc, items |-> items, results |-> results, status |-> status]

NoBatch == Batch("idle", <<>>, <<>>, 0)

\* lines 214-220 of analyze_batch: the awaited analyze_issue has returned or
\* raised HTTPException; either way results gets one entry, and after the
\* last item the list is returned
Collect(b, response) ==
    IF b.pc # "running" THEN b
    ELSE LET results == Append(b.results, response)
         IN  IF Len(results) = Len(b.items)
             THEN Batch("done", b.items, results, 200)
             ELSE Batch("running", b.items, results, 0)

\* the handler leaves: the request is done and response goes to the caller
Finish(r, run, response) ==
    /\ req' = [req EXCEPT ![r] = [run EXCEPT !.pc = "done", !.start = 0,
                                              !.body = JNull]]
    /\ resp' = [resp EXCEPT ![r] = response]
    /\ prev' = Finished(run, response)
    /\ batch' = Collect(batch, response)
    /\ UNCHANGED <<resolve, fetch, prompts>>

\* the handler awaits at pc
Await(r, run, pc) ==
    /\ req' = [req EXCEPT ![r] = [run EXCEPT !.pc = pc]]
    /\ resp' = [resp EXCEPT ![r] = NoResp]
    /\ UNCHANGED <<prev, batch, resolve, fetch, prompts>>

Urls ==
    {<<"https:", "/", "/", "github.com", "/", "acme", "/", "widgets">>,
     <<" ", "https:", "/", "/", "github.com", "/", "acme", "/", "widgets", ".git",
       "/", " ">>,
     <<"github.com">>,
     <<"https:", "/", "/", "gitlab.com", "/", "acme", "/", "widgets">>}

IssueNumbers == {0, 42}

\* schemas.py, AnalysisRequest: issue_number gt=0, "github.com" in github_url.
\* FastAPI answers 422 for a body that fails it and does not call the handler.
AnalysisRequest(github_url, issue_number) ==
    IF issue_number > 0 /\ HasGithub(github_url) THEN NoExc
    ELSE Exc("ValidationError", "AnalysisRequest")

\* analyze_issue of routes.py, lines 72-103: from the call of the handler up
\* to its first await
HandlerStart(r, url, issue_number, use_cache) ==
    /\ started' = started + 1
    /\ LET parsed == parse_github_url(url)
           key == cache_key(parsed.owner, parsed.repo, issue_number)
           got == cache_get(key)
           run == Request(started + 1, prev.id, "start", key, use_cache, now, <<>>, JNull)
           looked == [run EXCEPT !.did = <<"cache_get">>]
       IN  IF parsed.exc # NoExc
           THEN /\ stats' = record_error(stats)
                /\ Finish(r, [run EXCEPT !.key = ""], Response(400, FALSE, NoAnalysis))
                /\ UNCHANGED cacheVars
           ELSE IF use_cache
           THEN /\ Stores(got)
                /\ UNCHANGED <<cache_op, last_set>>
                /\ IF got.hit
                   THEN /\ stats' = record_hit(stats, now - run.start)
                        /\ Finish(r, looked, Response(200, TRUE, got.value))
                   ELSE /\ stats' = record_miss(stats)
                        /\ Await(r, looked, "validate")
           ELSE /\ UNCHANGED stats
                /\ Await(r, run, "validate")
                /\ UNCHANGED cacheVars
    /\ UNCHANGED llmVars

\* POST /analyze: the request body is validated, then the handler is called
ReqStart(r, url, issue_number, use_cache) ==
    /\ req[r].pc \in {"idle", "done"}
    /\ started < MaxRequests
    /\ IF AnalysisRequest(url, issue_number) # NoExc
       THEN /\ started' = started + 1
            /\ Finish(r, Request(started + 1, prev.id, "start", "", use_cache, now,
                                 <<>>, JNull),
                      Response(422, FALSE, NoAnalysis))
            /\ UNCHANGED <<stats, cacheVars, llmVars>>
       ELSE HandlerStart(r, url, issue_number, use_cache)

Probes == {"200", "301", "403", "404", "500"} \cup TransportFailures

\* any answer but an exception counts as the repository being there
validate_repository_lenient(probe) == probe \notin TransportFailures

\* only an error status counts as the repository missing
validate_repository_unless_status(probe) == probe \notin {"403", "404", "500"}

\* GitHubService.validate_repository: status_code == 200, False on an exception
validate_repository(probe) ==
    IF probe \in TransportFailures THEN FALSE ELSE probe = "200"

\* lines 105-112: validate_repository has answered
ReqValidated(r, probe) ==
    /\ req[r].pc = "validate"
    /\ LET run == [req[r] EXCEPT !.did = Append(@, "validate")]
       IN  IF validate_repository(probe)
           THEN /\ Await(r, run, "fetch_issue")
                /\ UNCHANGED stats
           ELSE /\ stats' = record_error(stats)
                /\ Finish(r, run, Response(404, FALSE, NoAnalysis))
    /\ UNCHANGED <<started, cacheVars, llmVars>>

IssueResult(status, body) == [status |-> status, body |-> body]

IssueResults ==
    {IssueResult("200", JStr("It crashes when I save.")), IssueResult("200", JNull),
     IssueResult("404", JNull), IssueResult("403", JNull),
     IssueResult("500", JNull), IssueResult("timeout", JNull)}

\* line 116, fetch_issue lines 108-118: the issue request has answered
ReqIssueFetched(r, issue) ==
    /\ req[r].pc = "fetch_issue"
    /\ LET run == [req[r] EXCEPT !.did = Append(@, "fetch_issue")]
       IN  IF issue.status = "200"
           THEN /\ Await(r, [run EXCEPT !.body = issue.body], "fetch_comments")
                /\ UNCHANGED stats
           ELSE /\ stats' = record_error(stats)
                /\ Finish(r, run, Response(500, FALSE, NoAnalysis))
    /\ UNCHANGED <<started, cacheVars, llmVars>>

GoodReply == Reply("text", TRUE, TRUE, "json", GoodData)

OtherReply ==
    Reply("text", FALSE, FALSE, "json",
          Data("dict", JStr("add dark mode"), JStr("feature_request"), JObj, JInt(2),
               JStr("cosmetic"), JList(<<JStr("ui")>>), JStr("nicer at night")))

\* what _parse_response makes of OtherReply
OtherReplyAnalysis ==
    IssueAnalysis("add dark mode", "feature_request", 2, "cosmetic", <<"ui">>,
                  "nicer at night")

GarbageReply == Reply("text", FALSE, FALSE, "garbage", EmptyObject)

Scripts ==
    {<<GoodReply>>, <<OtherReply>>, <<GarbageReply>>, <<GarbageReply, OtherReply>>}

\* lines 116-149: the comments request has answered (its failure is an
\* empty comment list); analysis, cache write, statistics, response
ReqCommentsFetched(r, script) ==
    /\ req[r].pc = "fetch_comments"
    /\ LET out == analyze_issue(req[r].body, script, 0, 0, DefaultMaxRetries)
           fetched == [req[r] EXCEPT !.did = Append(@, "fetch_comments")]
           asked == IF out.calls > 0
                    THEN [fetched EXCEPT !.did = Append(@, "model")]
                    ELSE fetched
       IN  IF out.exc # NoExc
           THEN /\ stats' = record_error(stats)
                /\ Finish(r, asked, Response(500, FALSE, NoAnalysis))
                /\ UNCHANGED cacheVars
           ELSE /\ Stores(cache_set(asked.key, out.analysis, <<>>))
                /\ UNCHANGED cache_op
                /\ last_set' = [last_set EXCEPT ![asked.key] =
                                    [live |-> TRUE, value |-> out.analysis,
                                     expires_at |-> now + RequestedTtl(<<>>)]]
                /\ stats' = record_analysis(stats, now - asked.start)
                /\ Finish(r, [asked EXCEPT !.did = Append(@, "cache_set")],
                          Response(200, FALSE, out.analysis))
    /\ UNCHANGED <<started, llmVars>>

\* line 202
MaxBatchSize == 5

\* a batch is refused only from the seventh item on
batch_too_large_by_two(items) == Len(items) > MaxBatchSize + 1

\* line 202: len(urls_and_issues) > 5
batch_too_large(items) == Len(items) > MaxBatchSize

\* one dict of the request body: the fields it has and their values
Item(fields, github_url, issue_number) ==
    [fields |-> fields, github_url |-> github_url, issue_number |-> issue_number]

PlainUrl == <<"https:", "/", "/", "github.com", "/", "acme", "/", "widgets">>

GoodItem == Item({"github_url", "issue_number"}, PlainUrl, 42)

NoNumberItem == Item({"github_url"}, PlainUrl, 0)

NoUrlItem == Item({"issue_number"}, <<>>, 42)

ZeroIssueItem == Item({"github_url", "issue_number"}, PlainUrl, 0)

NoMarkerItem ==
    Item({"github_url", "issue_number"},
         <<"https:", "/", "/", "gitlab.com", "/", "acme", "/", "widgets">>, 42)

UnresolvableItem == Item({"github_url", "issue_number"}, <<"github.com">>, 42)

Items ==
    {GoodItem, NoNumberItem, NoUrlItem, ZeroIssueItem, NoMarkerItem, UnresolvableItem}

MixedLen == 2

\* the request bodies: the short ones of every make, full ones, and one too long
Batches ==
    UNION {[1..n -> Items] : n \in 0..MixedLen}
      \cup {[i \in 1..MaxBatchSize |-> GoodItem],
            [i \in 1..MaxBatchSize |-> IF i = 2 THEN UnresolvableItem ELSE GoodItem],
            [i \in 1..MaxBatchSize |-> IF i = 4 THEN ZeroIssueItem ELSE GoodItem],
            [i \in 1..(MaxBatchSize + 1) |-> GoodItem],
            [i \in 1..(MaxBatchSize + 1) |-> IF i = 1 THEN NoUrlItem ELSE GoodItem]}

\* lines 207-211: item["github_url"], item["issue_number"], AnalysisRequest(...)
item_request(item) ==
    IF "github_url" \notin item.fields THEN Exc("KeyError", "github_url")
    ELSE IF "issue_number" \notin item.fields THEN Exc("KeyError", "issue_number")
    ELSE AnalysisRequest(item.github_url, item.issue_number)

\* POST /analyze-batch, lines 202-205 and 220: the size check; an empty list is
\* answered at once.  One batch is taken per behaviour; a refused one can come
\* before or after it.
BatchStart(items) ==
    /\ \/ batch.pc = "idle"
       \/ batch.pc = "done" /\ batch_too_large(items)
    /\ batch' = IF batch_too_large(items) THEN Batch("done", items, <<>>, 400)
                ELSE IF items = <<>> THEN Batch("done", items, <<>>, 200)
                ELSE Batch("running", items, <<>>, 0)
    /\ UNCHANGED <<stats, req, resp, started, prev, resolve, fetch, prompts, cacheVars, llmVars>>

\* lines 206-212: the loop takes the next item, builds its request and calls
\* the handler, which runs to its first await.  An exception that is not an
\* HTTPException leaves analyze_batch: main.py answers 500 for the batch.
BatchItem(r) ==
    /\ batch.pc = "running"
    /\ req[r].pc \in {"idle", "done"}
    /\ LET item == batch.items[Len(batch.results) + 1]
       IN  IF item_request(item) # NoExc
           THEN /\ batch' = [batch EXCEPT !.pc = "done", !.status = 500]
                /\ UNCHANGED <<stats, req, resp, started, prev, resolve, fetch, prompts, cacheVars, llmVars>>
           ELSE HandlerStart(r, item.github_url, item.issue_number, TRUE)

\* DELETE /cache/{owner}/{repo}/{issue_number}
clear_cache(owner, repo, issue_number) ==
    /\ Stores(cache_delete(cache_key(owner, repo, issue_number)))
    /\ last_set' = [k \in DOMAIN last_set |->
                        IF k = cache_key(owner, repo, issue_number) THEN NotSet
                        ELSE last_set[k]]
    /\ UNCHANGED <<cache_op, llmVars, reqVars>>

\* POST /cache/clear-all
clear_all_cache ==
    /\ Stores(cache_clear_all)
    /\ last_set' = [k \in DOMAIN last_set |-> NotSet]
    /\ UNCHANGED <<cache_op, llmVars, reqVars>>

\* GET /stats, lines 170-188: reads the five entries of stats and answers
\* with the counters, the hit rate and the mean response time (both guarded
\* against a division by zero); it writes nothing
get_stats == UNCHANGED vars

Next ==
    \/ \E r \in Slots, url \in Urls, n \in IssueNumbers, use_cache \in BOOLEAN :
          ReqStart(r, url, n, use_cache)
    \/ \E r \in Slots, probe \in Probes : ReqValidated(r, probe)
    \/ \E r \in Slots, issue \in IssueResults : ReqIssueFetched(r, issue)
    \/ \E r \in Slots, script \in Scripts : ReqCommentsFetched(r, script)
    \/ \E n \in IssueNumbers : clear_cache("acme", "widgets", n)
    \/ clear_all_cache
    \/ get_stats
    \/ RedisFail
    \/ RedisRecover
    \/ Tick

\* _call_gemini, lines 133-141: generate_content is called without a timeout
\* (self.timeout is stored and not passed on) and the remote does not
\* answer: the synchronous call does not return, and nothing leaves "model"
GenerateContentBlocks(r) ==
    /\ req[r].pc = "fetch_comments"
    /\ Await(r, [req[r] EXCEPT !.did = Append(Append(@, "fetch_comments"), "model")],
             "model")
    /\ UNCHANGED <<stats, started, cacheVars, llmVars>>

\* the handler with remotes that may stay silent: a silent GitHub ends the
\* httpx call with its timeout (a probe or an issue result of "timeout", an
\* empty comment list), a silent model ends nothing
NextLive ==
    \/ \E r \in Slots, url \in Urls, n \in IssueNumbers, use_cache \in BOOLEAN :
          ReqStart(r, url, n, use_cache)
    \/ \E r \in Slots, probe \in Probes : ReqValidated(r, probe)
    \/ \E r \in Slots, issue \in IssueResults : ReqIssueFetched(r, issue)
    \/ \E r \in Slots, script \in Scripts : ReqCommentsFetched(r, script)
    \/ \E r \in Slots : GenerateContentBlocks(r)

\* the event loop resumes a handler whose awaited call has ended, and every
\* httpx call ends: with an answer, or with the timeout of the client
LiveFairness ==
    \A r \in Slots :
        /\ WF_vars(\E probe \in Probes : ReqValidated(r, probe))
        /\ WF_vars(\E issue \in IssueResults : ReqIssueFetched(r, issue))
        /\ WF_vars(\E script \in Scripts : ReqCommentsFetched(r, script))

NextBatch ==
    \/ \E items \in Batches : BatchStart(items)
    \/ \E r \in Slots : BatchItem(r)
    \/ \E r \in Slots, probe \in Probes : ReqValidated(r, probe)
    \/ \E r \in Slots, issue \in IssueResults : ReqIssueFetched(r, issue)
    \/ \E r \in Slots, script \in Scripts : ReqCommentsFetched(r, script)

\* two handlers of /analyze at once
ConcSlots == {"h1", "h2"}

\* two requests for the same repository and issue with use_cache=true
NextConc ==
    \/ \E r \in ConcSlots : ReqStart(r, PlainUrl, 42, TRUE)
    \/ \E r \in ConcSlots, probe \in Probes : ReqValidated(r, probe)
    \/ \E r \in ConcSlots, issue \in IssueResults : ReqIssueFetched(r, issue)
    \/ \E r \in ConcSlots, script \in Scripts : ReqCommentsFetched(r, script)
    \/ RedisFail
    \/ RedisRecover
    \/ Tick

LLMIdle ==
    [pc |-> "idle", out |-> [exc |-> NoExc, analysis |-> NoAnalysis, prompt |-> "original"],
     reply |-> NotCalled, body |-> JStr("")]

\* LLMService.__init__; the cache is not configured and stays unused
InitLLM ==
    /\ llm_pc = LLMIdle.pc
    /\ retry_count = 0
    /\ max_retries = DefaultMaxRetries
    /\ llm_body = LLMIdle.body
    /\ llm_calls = 0
    /\ llm_hist = <<>>
    /\ llm_reply = LLMIdle.reply
    /\ llm_out = LLMIdle.out
    /\ redis_client = FALSE
    /\ redis_up = TRUE
    /\ redis_store = NoEntries
    /\ in_memory_cache = NoEntries
    /\ now = 0
    /\ cache_op = NoCacheOp
    /\ last_set = [k \in CacheKeys |-> NotSet]
    /\ stats = NoStats
    /\ req = [r \in Slots |-> IdleReq]
    /\ resp = [r \in Slots |-> NoResp]
    /\ started = 0
    /\ prev = NoneFinished
    /\ batch = NoBatch
    /\ resolve = NoResolve
    /\ fetch = NoFetch(FALSE)
    /\ prompts = <<>>

\* CacheManager.__init__: Redis enabled and importable, or not
InitCache ==
    /\ llm_pc = LLMIdle.pc
    /\ retry_count = 0
    /\ max_retries = DefaultMaxRetries
    /\ llm_body = LLMIdle.body
    /\ llm_calls = 0
    /\ llm_hist = <<>>
    /\ llm_reply = LLMIdle.reply
    /\ llm_out = LLMIdle.out
    /\ redis_client \in BOOLEAN
    /\ redis_up = TRUE
    /\ redis_store = NoEntries
    /\ in_memory_cache = NoEntries
    /\ now = 0
    /\ cache_op = NoCacheOp
    /\ last_set = [k \in CacheKeys |-> NotSet]
    /\ stats = NoStats
    /\ req = [r \in Slots |-> IdleReq]
    /\ resp = [r \in Slots |-> NoResp]
    /\ started = 0
    /\ prev = NoneFinished
    /\ batch = NoBatch
    /\ resolve = NoResolve
    /\ fetch = NoFetch(FALSE)
    /\ prompts = <<>>

\* module load of routes.py: the services are built, the statistics zeroed
Init ==
    /\ llm_pc = LLMIdle.pc
    /\ retry_count = 0
    /\ max_retries = DefaultMaxRetries
    /\ llm_body = LLMIdle.body
    /\ llm_calls = 0
    /\ llm_hist = <<>>
    /\ llm_reply = LLMIdle.reply
    /\ llm_out = LLMIdle.out
    /\ redis_client \in BOOLEAN
    /\ redis_up = TRUE
    /\ redis_store = NoEntries
    /\ in_memory_cache = NoEntries
    /\ now = 0
    /\ cache_op = NoCacheOp
    /\ last_set = [k \in CacheKeys |-> NotSet]
    /\ stats = NoStats
    /\ req = [r \in Slots |-> IdleReq]
    /\ resp = [r \in Slots |-> NoResp]
    /\ started = 0
    /\ prev = NoneFinished
    /\ batch = NoBatch
    /\ resolve = NoResolve
    /\ fetch = NoFetch(FALSE)
    /\ prompts = <<>>

\* module load of routes.py, before a batch call
InitBatch ==
    /\ llm_pc = LLMIdle.pc
    /\ retry_count = 0
    /\ max_retries = DefaultMaxRetries
    /\ llm_body = LLMIdle.body
    /\ llm_calls = 0
    /\ llm_hist = <<>>
    /\ llm_reply = LLMIdle.reply
    /\ llm_out = LLMIdle.out
    /\ redis_client \in BOOLEAN
    /\ redis_up = TRUE
    /\ redis_store = NoEntries
    /\ in_memory_cache = NoEntries
    /\ now = 0
    /\ cache_op = NoCacheOp
    /\ last_set = [k \in CacheKeys |-> NotSet]
    /\ stats = NoStats
    /\ req = [r \in Slots |-> IdleReq]
    /\ resp = [r \in Slots |-> NoResp]
    /\ started = 0
    /\ prev = NoneFinished
    /\ batch = NoBatch
    /\ resolve = NoResolve
    /\ fetch = NoFetch(FALSE)
    /\ prompts = <<>>

\* GitHubService is built; parse_github_url has not been called
InitResolve ==
    /\ llm_pc = LLMIdle.pc
    /\ retry_count = 0
    /\ max_retries = DefaultMaxRetries
    /\ llm_body = LLMIdle.body
    /\ llm_calls = 0
    /\ llm_hist = <<>>
    /\ llm_reply = LLMIdle.reply
    /\ llm_out = LLMIdle.out
    /\ redis_client = FALSE
    /\ redis_up = TRUE
    /\ redis_store = NoEntries
    /\ in_memory_cache = NoEntries
    /\ now = 0
    /\ cache_op = NoCacheOp
    /\ last_set = [k \in CacheKeys |-> NotSet]
    /\ stats = NoStats
    /\ req = [r \in Slots |-> IdleReq]
    /\ resp = [r \in Slots |-> NoResp]
    /\ started = 0
    /\ prev = NoneFinished
    /\ batch = NoBatch
    /\ resolve \in {Resolved(FALSE, url, NoResolve.out) : url \in ResolveUrls}
    /\ fetch = NoFetch(FALSE)
    /\ prompts = <<>>

\* module load of prompts.py: no prompt built yet
InitPrompt ==
    /\ llm_pc = LLMIdle.pc
    /\ retry_count = 0
    /\ max_retries = DefaultMaxRetries
    /\ llm_body = LLMIdle.body
    /\ llm_calls = 0
    /\ llm_hist = <<>>
    /\ llm_reply = LLMIdle.reply
    /\ llm_out = LLMIdle.out
    /\ redis_client = FALSE
    /\ redis_up = TRUE
    /\ redis_store = NoEntries
    /\ in_memory_cache = NoEntries
    /\ now = 0
    /\ cache_op = NoCacheOp
    /\ last_set = [k \in CacheKeys |-> NotSet]
    /\ stats = NoStats
    /\ req = [r \in Slots |-> IdleReq]
    /\ resp = [r \in Slots |-> NoResp]
    /\ started = 0
    /\ prev = NoneFinished
    /\ batch = NoBatch
    /\ resolve = NoResolve
    /\ fetch = NoFetch(FALSE)
    /\ prompts = <<>>

\* GitHubService.__init__: a token is configured, or none
InitFetch ==
    /\ llm_pc = LLMIdle.pc
    /\ retry_count = 0
    /\ max_retries = DefaultMaxRetries
    /\ llm_body = LLMIdle.body
    /\ llm_calls = 0
    /\ llm_hist = <<>>
    /\ llm_reply = LLMIdle.reply
    /\ llm_out = LLMIdle.out
    /\ redis_client = FALSE
    /\ redis_up = TRUE
    /\ redis_store = NoEntries
    /\ in_memory_cache = NoEntries
    /\ now = 0
    /\ cache_op = NoCacheOp
    /\ last_set = [k \in CacheKeys |-> NotSet]
    /\ stats = NoStats
    /\ req = [r \in Slots |-> IdleReq]
    /\ resp = [r \in Slots |-> NoResp]
    /\ started = 0
    /\ prev = NoneFinished
    /\ batch = NoBatch
    /\ resolve = NoResolve
    /\ fetch \in {NoFetch(github_token) : github_token \in BOOLEAN}
    /\ prompts = <<>>

\* module load of routes.py, two handler slots, the cache empty
InitConc ==
    /\ llm_pc = LLMIdle.pc
    /\ retry_count = 0
    /\ max_retries = DefaultMaxRetries
    /\ llm_body = LLMIdle.body
    /\ llm_calls = 0
    /\ llm_hist = <<>>
    /\ llm_reply = LLMIdle.reply
    /\ llm_out = LLMIdle.out
    /\ redis_client \in BOOLEAN
    /\ redis_up = TRUE
    /\ redis_store = NoEntries
    /\ in_memory_cache = NoEntries
    /\ now = 0
    /\ cache_op = NoCacheOp
    /\ last_set = [k \in CacheKeys |-> NotSet]
    /\ stats = NoStats
    /\ req = [r \in ConcSlots |-> IdleReq]
    /\ resp = [r \in ConcSlots |-> NoResp]
    /\ started = 0
    /\ prev = NoneFinished
    /\ batch = NoBatch
    /\ resolve = NoResolve
    /\ fetch = NoFetch(FALSE)
    /\ prompts = <<>>

SpecLLM == InitLLM /\ [][NextLLM]_vars

SpecCache == InitCache /\ [][NextCache]_vars

Spec == Init /\ [][Next]_vars

SpecBatch == InitBatch /\ [][NextBatch]_vars

SpecResolve == InitResolve /\ [][NextResolve]_vars

SpecFetch == InitFetch /\ [][NextFetch]_vars

SpecPrompt == InitPrompt /\ [][NextPrompt]_vars

SpecLive == Init /\ [][NextLive]_vars /\ LiveFairness

SpecConc == InitConc /\ [][NextConc]_vars

(***************************************************************************)
(* More properties of analyze_issue (SpecLLM).                             *)
(***************************************************************************)
FailureKinds == {"unparseable", "empty", "transport"}

\* the attempts before the last one all failed in one of the three ways
FailedSoFar ==
    /\ llm_hist # <<>>
    /\ llm_body.k = "str"
    /\ \A i \in 1..(Len(llm_hist) - 1) : llm_hist[i] \in FailureKinds

\* the last attempt's reply parses: it is JSON and _parse_response makes
\* an analysis of it
ReplyParses == ParsesAsJson(llm_reply) /\ build_analysis(llm_reply.data).exc = NoExc

C26_RetryUsesEnhancedPrompt ==
    [][(/\ llm_pc = "calling"
        /\ llm_hist # <<>>
        /\ llm_hist[Len(llm_hist)] = "unparseable"
        /\ llm_hist' # llm_hist) =>
           /\ llm_calls' = llm_calls + 1
           /\ llm_out'.prompt = "enhanced"]_vars

\* C27: an analysis made from a reply whose suggested_labels is a list has
\* one label per element of the list up to the fifth, in the order of the
\* list, each the element's text without surrounding whitespace, whatever
\* the element's JSON type; an empty list gives <<"general">>; there are
\* always between 1 and 5 labels.
C27_EveryLabelCoerced ==
    (llm_pc = "returned" /\ llm_reply.data.suggested_labels.k = "list") =>
        LET items == llm_reply.data.suggested_labels.items
            labels == llm_out.analysis.suggested_labels
        IN  /\ Len(labels) \in 1..MaxLabels
            /\ items = <<>> => labels = <<"general">>
            /\ items # <<>> =>
                  /\ Len(labels) = Len(Take(items, MaxLabels))
                  /\ \A i \in 1..Len(labels) :
                        IsStrOrInt(items[i]) => labels[i] = Strip(PyStr(items[i]))

(***************************************************************************)
(* Properties of the CacheManager (SpecCache).  A step is a CacheManager   *)
(* call when it flips cache_op.seq; cache_op' is then that call and its    *)
(* result, and the unprimed variables are the state it was made in.        *)
(***************************************************************************)
IsCall(op) == cache_op'.seq # cache_op.seq /\ cache_op'.op = op

\* the last set of key, not deleted or cleared since, has its TTL running
SetStillValid(key) == last_set[key].live /\ now < last_set[key].expires_at

\* C6: a get(k) made while the TTL of the most recent set(k, v) runs, with
\* no delete(k) or clear_all since that set, returns v, whatever Redis did
\* in between.
C6_GetReturnsLastSet ==
    [][\A key \in CacheKeys :
          (IsCall("get") /\ cache_op'.key = key /\ SetStillValid(key)) =>
              /\ cache_op'.hit
              /\ cache_op'.value = last_set[key].value]_vars

\* the call reached the in-process tier and found an entry for its key
MemoryConsulted(key) ==
    /\ cache_op'.key = key
    /\ cache_op'.tier = "memory"
    /\ key \in DOMAIN in_memory_cache

\* C7: a get(k) that reaches the in-process entry of k at or after its
\* expires_at returns absent and removes the entry; one made before it
\* returns the value and leaves the mapping as it is; and an entry leaves
\* the mapping only by such a get, by delete(k) or by clear_all (never by
\* the passing of time, a set, or a call on another key).
C7_LazyExpiry ==
    [][\A key \in CacheKeys :
          /\ (IsCall("get") /\ MemoryConsulted(key)
                /\ now >= in_memory_cache[key].expires_at) =>
                  /\ ~cache_op'.hit
                  /\ in_memory_cache' = Without(in_memory_cache, key)
          /\ (IsCall("get") /\ MemoryConsulted(key)
                /\ now < in_memory_cache[key].expires_at) =>
                  /\ cache_op'.hit
                  /\ cache_op'.value = in_memory_cache[key].value
                  /\ in_memory_cache' = in_memory_cache
          /\ (key \in DOMAIN in_memory_cache /\ key \notin DOMAIN in_memory_cache') =>
                  \/ IsCall("get") /\ cache_op'.key = key
                        /\ now >= in_memory_cache[key].expires_at
                  \/ IsCall("delete") /\ cache_op'.key = key
                  \/ IsCall("clear_all")]_vars

\* an entry was read at the very second it expires, and was dropped
C7_Witness ==
    /\ cache_op.op = "get"
    /\ cache_op.tier = "memory"
    /\ ~cache_op.hit
    /\ last_set[cache_op.key].live
    /\ last_set[cache_op.key].expires_at = now
    /\ cache_op.key \notin DOMAIN in_memory_cache

\* C8: with Redis configured and failing, no call raises; set returns True
\* and leaves the value in the in-process tier; and a get of the same key
\* that follows such a set, Redis still failing and the TTL running,
\* returns the value.
C8_PrimaryFailureAbsorbed ==
    [][(cache_op'.seq # cache_op.seq /\ cache_op'.failing) =>
          /\ ~cache_op'.raised
          /\ cache_op'.op = "set" =>
                /\ cache_op'.hit
                /\ cache_op'.key \in DOMAIN in_memory_cache'
                /\ in_memory_cache'[cache_op'.key].value = cache_op'.value
          /\ (/\ cache_op'.op = "get"
              /\ cache_op.op = "set"
              /\ cache_op.failing
              /\ cache_op.key = cache_op'.key
              /\ SetStillValid(cache_op.key)) =>
                /\ cache_op'.hit
                /\ cache_op'.value = cache_op.value]_vars

\* a set absorbed a Redis failure and the get after it, Redis still
\* failing, returned the value
C8_Witness ==
    /\ cache_op.op = "get"
    /\ cache_op.failing
    /\ cache_op.hit
    /\ cache_op.tier = "memory"
    /\ PrimaryFailing
    /\ redis_store = NoEntries

\* C30: a set with a ttl argument that lands in the in-process store makes
\* the entry expire exactly ttl seconds after the write, for every ttl >= 0
\* (with ttl = 0 the entry is expired at the next get); a set without one
\* uses the configured TTL.
C30_PerWriteTtl ==
    [][\A key \in CacheKeys, value \in CacheValues, opt \in TtlArgs :
          (CacheSet(key, value, opt) /\ cache_op'.tier = "memory") =>
              /\ key \in DOMAIN in_memory_cache'
              /\ in_memory_cache'[key].expires_at =
                    now + (IF opt = <<>> THEN ConfiguredTtl ELSE opt[1])
              /\ (opt = <<0>>) => ~cache_get(key)'.hit]_vars

\* C33: once delete(key) has returned, a get(key) finds nothing, whether
\* Redis answers or not and whichever store held the entry.
C33_DeletedIsAbsent ==
    [][\A key \in CacheKeys : CacheDelete(key) => ~cache_get(key)'.hit]_vars

\* C33 witness: delete was called while Redis answered, and the in-process
\* store still holds an unexpired entry for the key.
C33_Witness ==
    /\ cache_op.op = "delete"
    /\ ~cache_op.failing
    /\ redis_client /\ redis_up
    /\ cache_op.key \in DOMAIN in_memory_cache
    /\ in_memory_cache[cache_op.key].expires_at > now

\* C34: once clear_all has returned, a get finds nothing for any key,
\* whether Redis answers or not.
C34_ClearedIsEmpty ==
    [][CacheClearAll => \A key \in CacheKeys : ~cache_get(key)'.hit]_vars

\* C34 witness: clear_all was called while Redis answered, and the
\* in-process store still holds an unexpired entry.
C34_Witness ==
    /\ cache_op.op = "clear_all"
    /\ ~cache_op.failing
    /\ redis_client /\ redis_up
    /\ \E key \in DOMAIN in_memory_cache : in_memory_cache[key].expires_at > now

(***************************************************************************)
(* Properties of the /analyze handler (Spec).  A request is received in    *)
(* the step that counts it in started; it runs on slot r until its pc is   *)
(* "done".                                                                 *)
(***************************************************************************)
Starts(r) == started' = started + 1 /\ req'[r].id = started'

\* the analyses a lookup of key can be served from: unexpired entries of
\* the tiers that answer
HeldValues(key) ==
    {JsonLoads(redis_store[k].value) :
        k \in {k \in DOMAIN redis_store \cap {key} :
                  redis_client /\ redis_up /\ redis_store[k].expires_at > now}}
    \cup {in_memory_cache[k].value :
             k \in {k \in DOMAIN in_memory_cache \cap {key} :
                       in_memory_cache[k].expires_at > now}}

\* r's request finishes in this step
Finishes(r) == prev'.id # prev.id /\ prev'.id = req'[r].id

\* C9: when a request succeeded with use_cache=true and cached=false, and
\* what it wrote has neither expired nor been deleted or cleared, the next
\* request, for the same repository and issue with use_cache=true and
\* received after the first has finished, if it succeeds, reports
\* cached=true and returns the same data.
C9_RepeatIsHit ==
    [][\A r \in Slots :
          ( /\ Finishes(r)
            /\ req'[r].after = prev.id
            /\ prev.status = 200
            /\ prev.use_cache
            /\ ~prev.cached
            /\ prev'.status = 200
            /\ prev'.use_cache
            /\ prev'.key = prev.key
            /\ last_set[prev.key].live
            /\ last_set[prev.key].value = prev.data
            /\ last_set[prev.key].expires_at > now )
          => /\ prev'.cached
             /\ prev'.data = prev.data]_vars

IsPrefix(s, t) == Len(s) <= Len(t) /\ s = SubSeq(t, 1, Len(s))

Last(s) == s[Len(s)]

\* what a fresh run does, in order; the lookup only with use_cache
FreshOrder(use_cache) ==
    (IF use_cache THEN <<"cache_get">> ELSE <<>>)
    \o <<"validate", "fetch_issue", "fetch_comments", "model", "cache_set">>

\* r's handler writes a cache entry in this step
Writes(r) ==
    /\ req'[r] # req[r]
    /\ req'[r].did # <<>>
    /\ Last(req'[r].did) = "cache_set"

\* C11: a request with use_cache=true whose URL resolves and whose key no
\* answering tier holds adds one to cache_misses and goes on to repository
\* validation; what a handler has done is always a prefix of: lookup,
\* validation, issue fetch, comments fetch, model analysis, cache write; a
\* handler step puts an entry into a store only as that final write, which
\* ends the request with 200 and cached=false, and after it a lookup of
\* "acme/widgets#42", the only key there is, returns the returned analysis.
C11_MissPipelineOrder ==
    [][\A r \in Slots :
          /\ ( /\ Starts(r)
               /\ req'[r].use_cache
               /\ req'[r].key # ""
               /\ HeldValues(req'[r].key) = {} )
             => /\ stats'.cache_misses = stats.cache_misses + 1
                /\ stats'.cache_hits = stats.cache_hits
                /\ req'[r].pc = "validate"
                /\ req'[r].did = <<"cache_get">>
          /\ IsPrefix(req'[r].did, FreshOrder(req'[r].use_cache))
          /\ Writes(r)
             => /\ req'[r].pc = "done"
                /\ req'[r].did = FreshOrder(req'[r].use_cache)
                /\ resp'[r].status = 200
                /\ ~resp'[r].cached
                /\ req'[r].key = "acme/widgets#42"
                /\ cache_get("acme/widgets#42")'.hit
                /\ cache_get("acme/widgets#42")'.value = resp'[r].data
                /\ DOMAIN redis_store' \cup DOMAIN in_memory_cache' = {req'[r].key}
          /\ ( /\ req'[r] # req[r]
               /\ \/ \E k \in DOMAIN redis_store' :
                        \/ k \notin DOMAIN redis_store
                        \/ redis_store'[k] # redis_store[k]
                  \/ \E k \in DOMAIN in_memory_cache' :
                        \/ k \notin DOMAIN in_memory_cache
                        \/ in_memory_cache'[k] # in_memory_cache[k] )
             => Writes(r)]_vars

C11_Witness ==
    \E r \in Slots :
       /\ req[r].pc = "done"
       /\ req[r].use_cache
       /\ req[r].key = "acme/widgets#42"
       /\ req[r].did = FreshOrder(TRUE)
       /\ resp[r] = Response(200, FALSE, OtherReplyAnalysis)
       /\ stats.cache_misses = 1
       /\ cache_get(req[r].key).hit
       /\ cache_get(req[r].key).value = OtherReplyAnalysis

\* C12: when validate_repository answers false (the remote says 404, or the
\* probe fails), the request ends in that step with 404, errors goes up by
\* one and nothing else of the statistics changes, the handler has done
\* nothing after the validation (no issue or comments fetch, no model
\* invocation, no cache write) and both stores are as they were.
C12_InvalidRepositoryIs404 ==
    [][\A r \in Slots, probe \in Probes \ {"200"} :
          ReqValidated(r, probe)
          => /\ req'[r].pc = "done"
             /\ resp'[r] = Response(404, FALSE, NoAnalysis)
             /\ stats' = [stats EXCEPT !.errors = @ + 1]
             /\ req'[r].did = Append(req[r].did, "validate")
             /\ \A i \in 1..Len(req'[r].did) :
                   req'[r].did[i] \in {"cache_get", "validate"}
             /\ redis_store' = redis_store
             /\ in_memory_cache' = in_memory_cache]_vars

C12_Witness ==
    \E r \in Slots :
       /\ req[r].pc = "done"
       /\ req[r].did = <<"cache_get", "validate">>
       /\ resp[r].status = 404
       /\ stats.cache_misses = 1
       /\ stats.errors = 1

\* C25: validate_repository never raises and answers true exactly for the
\* status 200: whatever the probe does, the handler goes on to the issue
\* fetch (for 200) or ends with 404 (for every other status, a timeout, a
\* connection error); it never ends with 500 at this step.
C25_ProbeNeverRaises ==
    [][\A r \in Slots, probe \in Probes :
          ReqValidated(r, probe)
          => /\ validate_repository(probe) <=> probe = "200"
             /\ resp'[r].status # 500
             /\ IF probe = "200"
                THEN /\ req'[r].pc = "fetch_issue"
                     /\ stats' = stats
                ELSE /\ req'[r].pc = "done"
                     /\ resp'[r].status = 404]_vars

\* C25: a request without cache lookup has ended with 404 at the probe
C25_Witness ==
    \E r \in Slots :
       /\ req[r].pc = "done"
       /\ ~req[r].use_cache
       /\ req[r].did = <<"validate">>
       /\ resp[r].status = 404
       /\ stats.errors = 1

\* C13: a request whose URL lacks the host marker or does not resolve ends
\* with 400; one whose repository the remote reports missing ends with 404;
\* one whose issue the remote reports missing (404 on the issue fetch) ends
\* with 404; and a request ends with 500 only when the issue fetch failed
\* otherwise or the analysis raised.
C13_StatusOfKind ==
    [][\A r \in Slots :
          /\ \A url \in Urls, n \in IssueNumbers \ {0}, use_cache \in BOOLEAN :
                ( /\ ~HasGithub(url) \/ parse_github_url(url).exc # NoExc
                  /\ ReqStart(r, url, n, use_cache) )
                => resp'[r].status = 400
          /\ ReqValidated(r, "404") => resp'[r].status = 404
          /\ \A issue \in IssueResults :
                (issue.status = "404" /\ ReqIssueFetched(r, issue))
                => resp'[r].status = 404
          /\ (Finishes(r) /\ resp'[r].status = 500)
             => \/ \E issue \in IssueResults :
                      /\ issue.status \notin {"200", "404"}
                      /\ ReqIssueFetched(r, issue)
                \/ \E script \in Scripts : ReqCommentsFetched(r, script)]_vars

\* C14: the step that ends a request in failure adds exactly one to errors,
\* the step that ends it in success leaves errors as it was, and no other
\* step of a handler changes errors.
C14_OneErrorPerFailure ==
    [][\A r \in Slots :
          /\ (Finishes(r) /\ resp'[r].status # 200)
             => stats'.errors = stats.errors + 1
          /\ (Finishes(r) /\ resp'[r].status = 200)
             => stats'.errors = stats.errors
          /\ (req'[r] # req[r] /\ ~Finishes(r))
             => stats'.errors = stats.errors]_vars

\* C15: the step that ends a request with 200 and cached=false adds one to
\* total_analyses; the step that ends it with cached=true or in failure
\* leaves total_analyses as it was; the step that ends a request with 200
\* appends exactly one entry to response_times, the earlier entries kept;
\* a failing end, and every handler step that ends no request, leaves both
\* as they were.
C15_AnalysesAndTimes ==
    [][\A r \in Slots :
          /\ (Finishes(r) /\ resp'[r].status = 200 /\ ~resp'[r].cached)
             => stats'.total_analyses = stats.total_analyses + 1
          /\ (Finishes(r) /\ (resp'[r].status # 200 \/ resp'[r].cached))
             => stats'.total_analyses = stats.total_analyses
          /\ (Finishes(r) /\ resp'[r].status = 200)
             => /\ Len(stats'.response_times) = Len(stats.response_times) + 1
                /\ IsPrefix(stats.response_times, stats'.response_times)
          /\ (Finishes(r) /\ resp'[r].status # 200)
             => stats'.response_times = stats.response_times
          /\ (req'[r] # req[r] /\ ~Finishes(r))
             => /\ stats'.total_analyses = stats.total_analyses
                /\ stats'.response_times = stats.response_times]_vars

C15_Witness ==
    /\ \E r \in Slots : req[r].pc = "done" /\ resp[r].status = 200 /\ resp[r].cached
    /\ stats.total_analyses = 1
    /\ stats.cache_hits = 1
    /\ Len(stats.response_times) = 2

\* C32: no step lowers total_analyses, cache_hits, cache_misses or errors,
\* response_times changes only by getting one more entry at its end, and
\* DELETE /cache/..., POST /cache/clear-all and GET /stats leave stats as it
\* is.
C32_StatsOnlyGrow ==
    [][(stats' # stats) =>
          /\ stats'.total_analyses >= stats.total_analyses
          /\ stats'.cache_hits >= stats.cache_hits
          /\ stats'.cache_misses >= stats.cache_misses
          /\ stats'.errors >= stats.errors
          /\ IsPrefix(stats.response_times, stats'.response_times)
          /\ Len(stats'.response_times) <= Len(stats.response_times) + 1
          /\ ~((\E n \in IssueNumbers : clear_cache("acme", "widgets", n))
                 \/ clear_all_cache \/ get_stats)]_vars

\* C32 witness: an analysis and an error were counted, one response time
\* was appended, and the entry written has been cleared since.
C32_Witness ==
    /\ stats.total_analyses = 1
    /\ stats.errors = 1
    /\ Len(stats.response_times) = 1
    /\ \A k \in DOMAIN last_set : last_set[k] = NotSet
    /\ in_memory_cache = NoEntries
    /\ redis_store = NoEntries

\* no handler slot is between the start and the end of a request
Quiescent == \A r \in Slots : req[r].pc \in {"idle", "done"}

\* the step is the start of a use_cache=true request whose URL resolves
CachedLookupStarts ==
    \E r \in Slots, url \in Urls, n \in IssueNumbers :
        /\ ReqStart(r, url, n, TRUE)
        /\ parse_github_url(url).exc = NoExc

\* C35: whenever no request is in flight, the requests completed so far are
\* cache_hits + total_analyses + errors many and response_times has
\* cache_hits + total_analyses entries; and cache_hits + cache_misses counts
\* the use_cache=true requests whose URL resolved: it goes up by one with
\* each of them and with nothing else.
C35_CountersAddUp ==
    [][/\ Quiescent' =>
            /\ started' = stats'.cache_hits + stats'.total_analyses + stats'.errors
            /\ Len(stats'.response_times) =
                  stats'.cache_hits + stats'.total_analyses
       /\ stats'.cache_hits + stats'.cache_misses =
             stats.cache_hits + stats.cache_misses
                 + (IF CachedLookupStarts THEN 1 ELSE 0)]_vars

\* C35 witness: a request was answered 422 and no request is in flight.
C35_Witness ==
    /\ Quiescent
    /\ prev.status = 422
    /\ started = 1
    /\ stats = NoStats

\* C36: a request with use_cache=false makes no cache lookup and leaves
\* cache_hits and cache_misses alone; when it succeeds it has written its
\* analysis under its key, and the next request for that key with
\* use_cache=true, received after it finished and before the entry expired
\* or was deleted or cleared, is a hit that returns this analysis.
C36_UncachedRequestRefreshes ==
    [][\A r \in Slots :
          /\ (req'[r] # req[r] /\ ~req'[r].use_cache)
             => /\ stats'.cache_hits = stats.cache_hits
                /\ stats'.cache_misses = stats.cache_misses
                /\ \A i \in 1..Len(req'[r].did) : req'[r].did[i] # "cache_get"
          /\ (Finishes(r) /\ ~prev'.use_cache /\ prev'.status = 200)
             => /\ Last(req'[r].did) = "cache_set"
                /\ last_set'[prev'.key].live
                /\ last_set'[prev'.key].value = prev'.data
          /\ ( /\ Finishes(r)
               /\ req'[r].after = prev.id
               /\ prev.status = 200
               /\ ~prev.use_cache
               /\ prev'.use_cache
               /\ prev'.key = prev.key
               /\ last_set[prev.key].live
               /\ last_set[prev.key].value = prev.data
               /\ last_set[prev.key].expires_at > now )
             => /\ prev'.status = 200
                /\ prev'.cached
                /\ prev'.data = prev.data]_vars

\* C36 witness: a use_cache=false request succeeded and wrote its analysis,
\* and the following use_cache=true request for the same key was a hit.
C36_Witness ==
    /\ prev.use_cache
    /\ prev.cached
    /\ prev.status = 200
    /\ prev.id = 2
    /\ stats.cache_hits = 1
    /\ stats.cache_misses = 0
    /\ stats.total_analyses = 1

\* what a store holds: its unexpired entries
LiveEntries(store) ==
    [k \in {k \in DOMAIN store : store[k].expires_at > now} |-> store[k]]

\* r's request ends in this step as a fresh success
FinishesFresh(r) == Finishes(r) /\ prev'.status = 200 /\ ~prev'.cached

\* C37: a request that fails, at whatever stage, writes nothing to the
\* cache: every step of a request except the last step of a fresh success
\* (so every step of a failing request, the failing one included) leaves
\* under every key, in both stores, the value that was there.
C37_FailureWritesNothing ==
    [][\A r \in Slots :
          (req'[r] # req[r] /\ ~FinishesFresh(r)) =>
              /\ LiveEntries(redis_store') = LiveEntries(redis_store)
              /\ LiveEntries(in_memory_cache') = LiveEntries(in_memory_cache)
              /\ now' = now]_vars

\* C37 witness: the second request failed after the model's replies, with
\* use_cache=true, and the entry of the first request is still served
\* under its key.
C37_Witness ==
    /\ prev.id = 2
    /\ prev.status = 500
    /\ prev.key # ""
    /\ \E r \in Slots : req[r].id = 2 /\ Last(req[r].did) = "model"
    /\ last_set[prev.key].live
    /\ HeldValues(prev.key) = {last_set[prev.key].value}

\* C38: whatever body the fetched issue has (a text, or none because the
\* remote sent null), the run builds the prompt and invokes the model: a
\* request that got its issue does not end before a model invocation.
C38_NullBodyReachesModel ==
    [][\A r \in Slots :
          (req[r].pc = "fetch_comments" /\ req'[r].pc = "done") =>
              \E i \in DOMAIN req'[r].did : req'[r].did[i] = "model"]_vars

\* C38 witness: a request got its issue and ended with 500 without a model
\* invocation.
C38_Witness ==
    \E r \in Slots :
        /\ req[r].pc = "done"
        /\ req[r].did # <<>>
        /\ Last(req[r].did) = "fetch_comments"
        /\ resp[r].status = 500
        /\ prev.id = req[r].id

(***************************************************************************)
(* Properties of /analyze-batch (SpecBatch).                               *)
(***************************************************************************)

\* C16: a batch of at most 5 items ends with a result list that has exactly one
\* entry per item, an analysis or a per-item error, whatever the items are: an
\* item with a missing field, a non-positive issue number or a URL without
\* the host marker does not abort the batch or keep later items from being
\* processed.
C16_EveryItemOneEntry ==
    (batch.pc = "done" /\ Len(batch.items) <= MaxBatchSize) =>
        /\ batch.status = 200
        /\ Len(batch.results) = Len(batch.items)

\* a batch call is received
Received == batch.pc # "running" /\ batch' # batch

\* C17: a batch call with more than 5 items is answered 400 at once: no handler
\* is called for an item (no URL resolved, no remote call), the stores of the
\* cache are as they were and no statistics counter has moved.
C17_OversizedBatchRefused ==
    [][(Received /\ Len(batch'.items) > MaxBatchSize) =>
          /\ batch'.pc = "done"
          /\ batch'.status = 400
          /\ batch'.results = <<>>
          /\ UNCHANGED <<stats, req, resp, started, prev>>
          /\ UNCHANGED <<redis_store, in_memory_cache, last_set>>
          /\ UNCHANGED llmVars]_vars

\* C17: a batch of six has been refused after a batch that analysed an issue
C17_Witness ==
    /\ batch.pc = "done"
    /\ batch.status = 400
    /\ Len(batch.items) = MaxBatchSize + 1
    /\ stats.total_analyses = 1
    /\ stats.cache_hits > 0

(***************************************************************************)
(* Properties of parse_github_url (SpecResolve).                           *)
(***************************************************************************)

\* the argument without surrounding whitespace and trailing slashes, and its
\* segments
Stripped(url) == RStrip(RStrip(LStrip(url), " "), "/")

Segments(url) == Split(Stripped(url), <<>>, <<>>)

HostMarker == <<"github.com">>

\* the segments after the first one that is the host
AfterHost(url) ==
    LET parts == Segments(url)
        hosts == {i \in 1..Len(parts) : parts[i] = HostMarker}
    IN  IF hosts = {} THEN <<>>
        ELSE SubSeq(parts, (CHOOSE i \in hosts : \A j \in hosts : i <= j) + 1, Len(parts))

HasHostSegment(url) == \E i \in 1..Len(Segments(url)) : Segments(url)[i] = HostMarker

\* C18: parse_github_url raises for an argument without the host marker, for
\* one with fewer than two path segments after the host once whitespace and
\* trailing slashes are stripped, and for one whose owner or name segment is
\* empty; what it returns as owner is never the host or the scheme.
C18_InvalidUrlsFail ==
    resolve.called =>
        LET parts == Segments(resolve.url)
            few == HasHostSegment(resolve.url) /\ Len(AfterHost(resolve.url)) < 2
            empty == \/ parts[Len(parts)] = <<>>
                     \/ Len(parts) >= 2 /\ parts[Len(parts) - 1] = <<>>
        IN  /\ (~HasGithub(Stripped(resolve.url)) \/ few \/ empty) =>
                   resolve.out.exc # NoExc
            /\ resolve.out.exc = NoExc =>
                   resolve.out.owner \notin {"github.com", "https:"}

\* a segment without a ".git" at its end
DropTrailingGit(part) ==
    IF part # <<>> /\ part[Len(part)] = ".git" THEN SubSeq(part, 1, Len(part) - 1)
    ELSE part

\* C19: for an argument with the host marker and at least two path segments
\* after the host, parse_github_url returns the second-to-last segment and
\* the last segment without a trailing ".git", after stripping surrounding
\* whitespace and trailing slashes; a ".git" elsewhere in the last segment
\* stays.
C19_LastTwoSegments ==
    LET parts == Segments(resolve.url)
        name == DropTrailingGit(parts[Len(parts)])
    IN  (/\ resolve.called
         /\ HasHostSegment(resolve.url)
         /\ Len(AfterHost(resolve.url)) >= 2
         /\ parts[Len(parts) - 1] # <<>>
         /\ name # <<>>) =>
            resolve.out = Parsed(NoExc, Text(parts[Len(parts) - 1]), Text(name))

(***************************************************************************)
(* Two requests at once (SpecConc).                                        *)
(***************************************************************************)

\* both requests began before either had finished, both missed, went through
\* validation, fetch, analysis and cache write, and answered cached=false
BothFresh ==
    /\ {req[r].id : r \in DOMAIN req} = {1, 2}
    /\ \A r \in DOMAIN req :
          /\ req[r].pc = "done"
          /\ req[r].after = 0
          /\ req[r].key = "acme/widgets#42"
          /\ req[r].did = FreshOrder(TRUE)
          /\ resp[r].status = 200
          /\ ~resp[r].cached

\* C20: two concurrent requests for the same repository and issue, with
\* use_cache=true and the cache empty, can both miss and both do the whole
\* fresh path; once both have finished, the last write to the key is that of
\* the request that finished last, and while it has not expired an entry the
\* cache answers with for the key is that request's analysis.
C20_LastWriterWins ==
    (BothFresh /\ SetStillValid("acme/widgets#42")) =>
        /\ last_set["acme/widgets#42"].value = prev.data
        /\ cache_get("acme/widgets#42").hit =>
               cache_get("acme/widgets#42").value = prev.data

\* C20: both requests were fresh with different analyses, and the one that
\* finished last is the one the cache answers with
C20_Witness ==
    /\ BothFresh
    /\ \E r, q \in DOMAIN req :
          /\ resp[r].data # resp[q].data
          /\ prev.id = req[q].id
          /\ cache_get("acme/widgets#42").hit
          /\ cache_get("acme/widgets#42").value = resp[q].data

\* the handlers between two awaits
Running == {r \in DOMAIN req : req[r].pc \notin {"idle", "done"}}

\* every run so far is the last run of its slot, and has finished
AllRunsSeen ==
    /\ started = Cardinality(DOMAIN req)
    /\ {req[r].id : r \in DOMAIN req} = 1..started
    /\ Running = {}

\* C21: however the steps of concurrent runs interleave, no update of the
\* statistics is lost.  Every run here looks the cache up, so hits and
\* misses add up to the runs started; errors and response times add up to
\* the runs finished; fresh analyses and hits add up to the response times.
\* When the runs are the last ones of their slots, each counter is the
\* number of runs that took its increment.
C21_NoLostUpdate ==
    /\ stats.cache_hits + stats.cache_misses = started
    /\ stats.errors + Len(stats.response_times) = started - Cardinality(Running)
    /\ stats.total_analyses + stats.cache_hits = Len(stats.response_times)
    /\ AllRunsSeen =>
          /\ stats.cache_hits = Cardinality({r \in DOMAIN req : resp[r].cached})
          /\ stats.cache_misses = Cardinality({r \in DOMAIN req : ~resp[r].cached})
          /\ stats.total_analyses =
                Cardinality({r \in DOMAIN req : Last(req[r].did) = "cache_set"})
          /\ stats.errors = Cardinality({r \in DOMAIN req : resp[r].status # 200})
          /\ Len(stats.response_times) =
                Cardinality({r \in DOMAIN req : resp[r].status = 200})

\* C21: two overlapping runs have both failed, at different steps
C21_Witness ==
    /\ AllRunsSeen
    /\ \A r \in DOMAIN req : req[r].after = 0
    /\ {resp[r].status : r \in DOMAIN req} = {404, 500}
    /\ stats.errors = 2
    /\ stats.cache_misses = 2


CommentsCallFails(answer) ==
    \/ answer.status # "200"
    \/ answer.payload.kind # "list"
    \/ \E i \in DOMAIN answer.payload.items : ~answer.payload.items[i].object

\* the issue payload is an object whose user, if given, is an object
RecordBuilds(payload) == payload.kind = "object" /\ payload.user # "null"

C29_CommentsFilteredInOrder ==
    (fetch.pc = "returned" /\ ~CommentsCallFails(fetch.comments_answer)) =>
        LET items == fetch.comments_answer.payload.items
            with_body == {i \in DOMAIN items :
                             items[i].body.k = "str" /\ items[i].body.s # ""}
            got == fetch.out.issue.comments
        IN  /\ Len(got) <= 20
            /\ Len(got) = (IF Cardinality(with_body) < 20
                           THEN Cardinality(with_body) ELSE 20)
            /\ \A n \in DOMAIN got :
                  \E i \in with_body :
                      /\ Cardinality({j \in with_body : j <= i}) = n
                      /\ got[n] = items[i].body.s

\* C29 witness: the remote returned twenty comments, one of them without a
\* text, and the record holds the other nineteen.
C29_Witness ==
    /\ fetch.pc = "returned"
    /\ fetch.comments_answer.payload.kind = "list"
    /\ Len(fetch.comments_answer.payload.items) = 20
    /\ Len(fetch.out.issue.comments) = 19
    /\ fetch.out.issue.comments[3] = "4"


(***************************************************************************)
(* Termination of a run whose remotes may stay silent (SpecLive).          *)
(***************************************************************************)
\* C28: every remote call of a run is bounded by a timeout, so a run that
\* was started ends with a response whatever the remotes do, the model
\* included.
C28_RunTerminates ==
    \A r \in Slots : (req[r].pc \notin {"idle", "done"}) ~> (req[r].pc = "done")

\* C28 witness: the handler sits in generate_content.
C28_Witness == \E r \in Slots : req[r].pc = "model" /\ resp[r] = NoResp

\* the calls with a timeout: a run waiting for the probe, the issue or the
\* comments goes on
GitHubCallsEnd ==
    \A r \in Slots :
        (req[r].pc \in {"validate", "fetch_issue"}) ~>
            (req[r].pc \in {"done", "fetch_comments"})


(***************************************************************************)
(* Properties of create_analysis_prompt (SpecPrompt).                      *)
(***************************************************************************)
\* got is the first characters of text, all of them up to limit
FirstChars(got, text, limit) ==
    /\ Len(got) = (IF Len(text) < limit THEN Len(text) ELSE limit)
    /\ \A i \in DOMAIN got : got[i] = text[i]

\* C31: the prompt embeds the first 8000 characters of the body (all of a
\* shorter one) and the first 20 comments in order, each by its first 1000
\* characters (all of a shorter one); calls with the same arguments return
\* the same prompt.
C31_PromptTruncation ==
    /\ \A n \in DOMAIN prompts :
          LET call == prompts[n]
          IN  /\ FirstChars(call.out.body, call.issue_body, 8000)
              /\ Len(call.out.comments) =
                    (IF Len(call.comments) < 20 THEN Len(call.comments) ELSE 20)
              /\ \A i \in DOMAIN call.out.comments :
                    FirstChars(call.out.comments[i], call.comments[i], 1000)
              /\ call.out.title = call.issue_title
    /\ \A m, n \in DOMAIN prompts :
          (/\ prompts[m].issue_title = prompts[n].issue_title
           /\ prompts[m].issue_body = prompts[n].issue_body
           /\ prompts[m].comments = prompts[n].comments) =>
              prompts[m].out = prompts[n].out

\* C31 witness: two calls with the same over-long body and 21 comments, the
\* second comment over-long; the body was cut to 8000, the comments to 20,
\* the second comment to 1000.
C31_Witness ==
    /\ Len(prompts) = 2
    /\ prompts[1].issue_body = prompts[2].issue_body
    /\ prompts[1].comments = prompts[2].comments
    /\ Len(prompts[1].issue_body) = 8001
    /\ Len(prompts[1].out.body) = 8000
    /\ Len(prompts[1].comments) = 21
    /\ Len(prompts[1].out.comments) = 20
    /\ Len(prompts[1].comments[2]) = 1001
    /\ Len(prompts[1].out.comments[2]) = 1000

=============================================================================
